---- MODULE Spec2Model ----
(***************************************************************************)
(* A model of the object database of k4g4/codecrafters-git-rust: the      *)
(* loose-object store, its codecs and the commands that read and write it.*)
(* Strings and file contents are sequences of byte values (0..255); a     *)
(* path is a sequence of names relative to the working directory.         *)
(***************************************************************************)
EXTENDS Integers, Sequences, FiniteSets, TLC

\* ------------------------------------------------------------------------
\* Bounds of the model
\* ------------------------------------------------------------------------
MaxObjects == 2
MaxCommits == 2
MaxNames == 2

\* ------------------------------------------------------------------------
\* Program constants and string literals (as bytes)
\* ------------------------------------------------------------------------
SHA_LEN == 20
SHA_DISPLAY_LEN == 40
CAT_SHA_LEN == 40
TYPE_BUF_LEN == 64

DOT_GIT == <<46, 103, 105, 116>>  \* ".git"
OBJECTS == <<111, 98, 106, 101, 99, 116, 115>>  \* "objects"
REFS == <<114, 101, 102, 115>>  \* "refs"
HEAD == <<72, 69, 65, 68>>  \* "HEAD"
HEADS == <<104, 101, 97, 100, 115>>  \* "heads"
TAGS == <<116, 97, 103, 115>>  \* "tags"
CONFIG == <<99, 111, 110, 102, 105, 103>>  \* "config"
\* "ref: refs/heads/main\n"
HEAD_CONTENTS == <<114, 101, 102, 58, 32, 114, 101, 102, 115, 47, 104, 101, 97, 100, 115, 47, 109, 97, 105, 110, 10>>
\* "\n[core]\n\trepositoryformatversion = 0\n\tfilemode = true\n\tbare = false\n\tlogallrefupdates = true\n"
INIT_CONFIG == <<10, 91, 99, 111, 114, 101, 93, 10, 9, 114, 101, 112, 111, 115, 105, 116, 111, 114, 121, 102, 111, 114, 109, 97, 116, 118, 101, 114, 115, 105, 111, 110, 32, 61, 32, 48, 10, 9, 102, 105, 108, 101, 109, 111, 100, 101, 32, 61, 32, 116, 114, 117, 101, 10, 9, 98, 97, 114, 101, 32, 61, 32, 102, 97, 108, 115, 101, 10, 9, 108, 111, 103, 97, 108, 108, 114, 101, 102, 117, 112, 100, 97, 116, 101, 115, 32, 61, 32, 116, 114, 117, 101, 10>>
\* "Initialized git directory\n"
S_init_msg == <<73, 110, 105, 116, 105, 97, 108, 105, 122, 101, 100, 32, 103, 105, 116, 32, 100, 105, 114, 101, 99, 116, 111, 114, 121, 10>>
S_blob == <<98, 108, 111, 98>>  \* "blob"
S_tree == <<116, 114, 101, 101>>  \* "tree"
S_commit == <<99, 111, 109, 109, 105, 116>>  \* "commit"
S_tag == <<116, 97, 103>>  \* "tag"

SP == 32
NUL == 0
LF == 10
TAB == 9

Byte == 0..255

\* ------------------------------------------------------------------------
\* Byte-string helpers
\* ------------------------------------------------------------------------
Drop(s, n) == SubSeq(s, n + 1, Len(s))
Take(s, n) == SubSeq(s, 1, n)
StartsWith(s, p) == Len(p) <= Len(s) /\ SubSeq(s, 1, Len(p)) = p
Last(s) == s[Len(s)]

IsDigit(c) == c >= 48 /\ c <= 57
IsHexDigit(c) == IsDigit(c) \/ (c >= 97 /\ c <= 102) \/ (c >= 65 /\ c <= 70)

\* one lowercase hexadecimal character of "{byte:02x}"
HexChar(n) == IF n < 10 THEN 48 + n ELSE 87 + n

\* for byte in bytes { write!(f, "{byte:02x}") }
Hex(bytes) ==
    [i \in 1..(2 * Len(bytes)) |->
        IF i % 2 = 1 THEN HexChar(bytes[(i + 1) \div 2] \div 16)
        ELSE HexChar(bytes[i \div 2] % 16)]

\* "{}" of an unsigned integer: decimal digits, no leading zero
RECURSIVE Dec(_)
Dec(n) == IF n < 10 THEN <<48 + n>> ELSE Dec(n \div 10) \o <<48 + (n % 10)>>

\* the longest prefix of s[i..] made of digits (nom digit1), as an end index
DigitsEnd(s, i) ==
    CHOOSE j \in i..(Len(s) + 1) :
        /\ \A k \in i..(j - 1) : IsDigit(s[k])
        /\ j = Len(s) + 1 \/ ~IsDigit(s[j])

\* str::parse::<usize> of s[i..j-1], all digits
RECURSIVE ParseDec(_, _, _, _)
ParseDec(s, i, j, acc) == IF i >= j THEN acc ELSE ParseDec(s, i + 1, j, acc * 10 + (s[i] - 48))

\* ------------------------------------------------------------------------
\* SHA-1 and zlib
\* ------------------------------------------------------------------------
\* SHA-1 is represented by a 20-byte digest computed from two polynomial
\* lanes over the whole input; it is deterministic and has no collision on
\* the inputs of the model.  The sums are split in halves to keep the
\* evaluation shallow.
RECURSIVE PowMod(_, _, _)
PowMod(b, e, m) ==
    IF e = 0 THEN 1
    ELSE LET h == PowMod(b, e \div 2, m)
             sq == (h * h) % m
         IN  IF e % 2 = 0 THEN sq ELSE (sq * b) % m

\* sum over k in i..j of (s[k] + 1) * mul^(j - k), modulo m
RECURSIVE Lane(_, _, _, _, _)
Lane(s, i, j, mul, m) ==
    IF i > j THEN 0
    ELSE IF i = j THEN (s[i] + 1) % m
    ELSE LET mid == (i + j) \div 2
         IN  (Lane(s, i, mid, mul, m) * PowMod(mul, j - mid, m) + Lane(s, mid + 1, j, mul, m)) % m

Sha1(s) ==
    LET a == (Lane(s, 1, Len(s), 31, 46337) + 7 * Len(s)) % 46337
        b == (Lane(s, 1, Len(s), 37, 46327) + 11) % 46327
    IN  [k \in 1..SHA_LEN |->
            CASE k = 1 -> a \div 256
              [] k = 2 -> a % 256
              [] k = 3 -> b \div 256
              [] k = 4 -> b % 256
              [] OTHER -> (a * k + b * (k + 3) + Len(s)) % 256]

\* Adler-32 of the uncompressed data, big-endian, as zlib appends it
\* (A = 1 + sum of the bytes, B = sum of the successive values of A, both
\* modulo 65521)
RECURSIVE AdlerSum(_, _, _, _)
AdlerSum(s, i, j, weighted) ==
    IF i > j THEN 0
    ELSE IF i = j THEN (IF weighted THEN (Len(s) - i + 1) * s[i] ELSE s[i]) % 65521
    ELSE LET mid == (i + j) \div 2
         IN  (AdlerSum(s, i, mid, weighted) + AdlerSum(s, mid + 1, j, weighted)) % 65521
Adler32(s) ==
    LET a == (1 + AdlerSum(s, 1, Len(s), FALSE)) % 65521
        b == (Len(s) + AdlerSum(s, 1, Len(s), TRUE)) % 65521
    IN  <<b \div 256, b % 256, a \div 256, a % 256>>

\* ZlibEncoder: a zlib stream (header 78 9c) holding one final stored
\* block (01, LEN, NLEN, data) and the Adler-32 trailer.
ZlibEncode(s) ==
    LET n == Len(s)
    IN  <<120, 156, 1, n % 256, n \div 256, 255 - (n % 256), 255 - (n \div 256)>>
        \o s \o Adler32(s)

\* ZlibDecoder over z[from..]: inflates one stream.  Yields whether the
\* stream is well formed, the data, and the number of input bytes consumed.
ZlibDecode(z, from) ==
    LET avail == Len(z) - from + 1
        n == IF avail >= 7 THEN z[from + 3] + 256 * z[from + 4] ELSE 0
        wellFormed ==
            /\ avail >= 7
            /\ z[from] = 120 /\ z[from + 1] = 156 /\ z[from + 2] = 1
            /\ z[from + 5] = 255 - z[from + 3] /\ z[from + 6] = 255 - z[from + 4]
            /\ avail >= 7 + n + 4
            /\ SubSeq(z, from + 7 + n, from + 7 + n + 3) = Adler32(SubSeq(z, from + 7, from + 6 + n))
    IN  IF wellFormed
        THEN [ok |-> TRUE, data |-> SubSeq(z, from + 7, from + 6 + n), total_in |-> 7 + n + 4]
        ELSE [ok |-> FALSE, data |-> <<>>, total_in |-> 0]

\* ------------------------------------------------------------------------
\* The file system: a function from paths to nodes
\* ------------------------------------------------------------------------
DirNode == [t |-> "dir", data |-> <<>>, x |-> FALSE]
FileNode(data, x) == [t |-> "file", data |-> data, x |-> x]
LinkNode(target) == [t |-> "link", data |-> target, x |-> TRUE]

Parent(p) == SubSeq(p, 1, Len(p) - 1)
Exists(f, p) == p \in DOMAIN f
\* the working directory itself always exists
IsDir(f, p) == p = <<>> \/ (Exists(f, p) /\ f[p].t = "dir")
IsFile(f, p) == Exists(f, p) /\ f[p].t = "file"
\* fs::read_dir(p): the entries of a directory (in no particular order)
ReadDir(f, p) == {q \in DOMAIN f : Len(q) = Len(p) + 1 /\ Parent(q) = p}

\* fs::create_dir
CreateDir(f, p) ==
    IF Exists(f, p) THEN [ok |-> FALSE, kind |-> "AlreadyExists", fs |-> f]
    ELSE IF ~IsDir(f, Parent(p)) THEN [ok |-> FALSE, kind |-> "NotFound", fs |-> f]
    ELSE [ok |-> TRUE, kind |-> "", fs |-> f @@ (p :> DirNode)]

\* fs::remove_file
RemoveFile(f, p) ==
    IF ~Exists(f, p) THEN [ok |-> FALSE, kind |-> "NotFound", fs |-> f]
    ELSE IF f[p].t = "dir" THEN [ok |-> FALSE, kind |-> "IsADirectory", fs |-> f]
    ELSE [ok |-> TRUE, kind |-> "", fs |-> [q \in DOMAIN f \ {p} |-> f[q]]]

\* File::create followed by writing data, and fs::write: create or truncate
WriteFile(f, p, data) ==
    IF ~IsDir(f, Parent(p)) THEN [ok |-> FALSE, kind |-> "NotFound", fs |-> f]
    ELSE IF Exists(f, p) /\ f[p].t = "dir" THEN [ok |-> FALSE, kind |-> "IsADirectory", fs |-> f]
    ELSE IF Exists(f, p) /\ f[p].t = "file"
         THEN [ok |-> TRUE, kind |-> "", fs |-> [f EXCEPT ![p].data = data]]
    ELSE [ok |-> TRUE, kind |-> "", fs |-> f @@ (p :> FileNode(data, FALSE))]

\* ------------------------------------------------------------------------
\* Results of the operations
\* ------------------------------------------------------------------------
Ok(f, out) == [status |-> "ok", fs |-> f, out |-> out]
Err(f, out) == [status |-> "err", fs |-> f, out |-> out]

\* ------------------------------------------------------------------------
\* init
\* ------------------------------------------------------------------------
\* .and_then(..) and `?`: a step runs on the file system the step before
\* left, and only if that step succeeded
ThenDir(s, p) == IF s.ok THEN CreateDir(s.fs, p) ELSE s
ThenFile(s, p, data) == IF s.ok THEN WriteFile(s.fs, p, data) ELSE s

\* a variant of InitSteps that puts heads next to refs
InitSteps_flat(f) ==
    ThenFile(ThenFile(ThenDir(ThenDir(ThenDir(ThenDir(
        CreateDir(f, <<DOT_GIT>>),
        <<DOT_GIT, OBJECTS>>),
        <<DOT_GIT, REFS>>),
        <<DOT_GIT, HEADS>>),
        <<DOT_GIT, REFS, TAGS>>),
        <<DOT_GIT, HEAD>>, HEAD_CONTENTS),
        <<DOT_GIT, CONFIG>>, INIT_CONFIG)

\* the directories and the two files of init, in the order of the code
InitSteps(f) ==
    ThenFile(ThenFile(ThenDir(ThenDir(ThenDir(ThenDir(
        CreateDir(f, <<DOT_GIT>>),
        <<DOT_GIT, OBJECTS>>),
        <<DOT_GIT, REFS>>),
        <<DOT_GIT, REFS, HEADS>>),
        <<DOT_GIT, REFS, TAGS>>),
        <<DOT_GIT, HEAD>>, HEAD_CONTENTS),
        <<DOT_GIT, CONFIG>>, INIT_CONFIG)

\* the message of init once the steps are made
InitDone(r) == IF r.ok THEN Ok(r.fs, S_init_msg) ELSE Err(r.fs, <<>>)

init(f) == InitDone(InitSteps(f))

\* ------------------------------------------------------------------------
\* The object store
\* ------------------------------------------------------------------------
Kinds == {"blob", "commit", "tree", "tag"}

\* impl fmt::Display for Type
TypeName(kind) ==
    CASE kind = "blob" -> S_blob
      [] kind = "commit" -> S_commit
      [] kind = "tree" -> S_tree
      [] kind = "tag" -> S_tag

\* format!("{type} {}\0", contents.len())
Header(kind, contents) == TypeName(kind) \o <<SP>> \o Dec(Len(contents)) \o <<NUL>>

\* .git/objects/<first byte in hex>
ObjectDir(hash) == <<DOT_GIT, OBJECTS, Hex(<<hash[1]>>)>>
\* a variant of ObjectPath that names the file by the whole hash
ObjectPath_full(hash) == ObjectDir(hash) \o <<Hex(hash)>>
\* .git/objects/<first byte in hex>/<the other 19 bytes in hex>
ObjectPath(hash) == ObjectDir(hash) \o <<Hex(Drop(hash, 1))>>

\* the files under .git/objects/xy/
ObjectFiles(f) == {p \in DOMAIN f : Len(p) = 4 /\ Take(p, 2) = <<DOT_GIT, OBJECTS>>}

\* a variant of create_object that fails when the subdirectory exists
create_object_strict(f, hash) ==
    LET d == CreateDir(f, ObjectDir(hash))
    IN  IF ~d.ok THEN [ok |-> FALSE, fs |-> f]
        ELSE LET r == RemoveFile(d.fs, ObjectPath(hash))
             IN  IF ~r.ok /\ r.kind # "NotFound" THEN [ok |-> FALSE, fs |-> d.fs]
                 ELSE LET c == WriteFile(r.fs, ObjectPath(hash), <<>>)
                      IN  [ok |-> c.ok, fs |-> c.fs]

\* create_object: the subdirectory is created unless it exists, an existing
\* file is removed, and a fresh empty file is created
create_object(f, hash) ==
    LET d == CreateDir(f, ObjectDir(hash))
    IN  IF ~d.ok /\ d.kind # "AlreadyExists" THEN [ok |-> FALSE, fs |-> f]
        ELSE LET r == RemoveFile(d.fs, ObjectPath(hash))
             IN  IF ~r.ok /\ r.kind # "NotFound" THEN [ok |-> FALSE, fs |-> d.fs]
                 ELSE LET c == WriteFile(r.fs, ObjectPath(hash), <<>>)
                      IN  [ok |-> c.ok, fs |-> c.fs]

\* a variant of write_object that stores the bytes as they are
write_object_raw(f, hash, framed) ==
    LET c == create_object(f, hash)
    IN  IF ~c.ok THEN [ok |-> FALSE, fs |-> c.fs]
        ELSE LET w == WriteFile(c.fs, ObjectPath(hash), framed)
             IN  [ok |-> w.ok, fs |-> w.fs]

\* create_object, then io::copy of the ZlibEncoder over header and contents
\* into the new file
write_object(f, hash, framed) ==
    LET c == create_object(f, hash)
    IN  IF ~c.ok THEN [ok |-> FALSE, fs |-> c.fs]
        ELSE LET w == WriteFile(c.fs, ObjectPath(hash), ZlibEncode(framed))
             IN  [ok |-> w.ok, fs |-> w.fs]

\* hash_object on contents already read from its source
hash_object(f, write, kind, contents, as_hex) ==
    LET framed == Header(kind, contents) \o contents
        hash == Sha1(framed)
        out == IF as_hex THEN Hex(hash) \o <<LF>> ELSE hash
    IN  IF ~write THEN Ok(f, out)
        ELSE LET w == write_object(f, hash, framed)
             IN  IF w.ok THEN Ok(w.fs, out) ELSE Err(w.fs, out)

\* a variant of Lookup that takes queries of three characters
Lookup_short(f, q, nameLen) ==
    IF ~(Len(q) > 2) THEN {}
    ELSE LET sha_dir == Take(q, 2)
             sha_file == Drop(q, 2)
             dir == <<DOT_GIT, OBJECTS, sha_dir>>
         IN  IF ~IsDir(f, <<DOT_GIT, OBJECTS>>) \/ ~IsDir(f, dir) THEN {}
             ELSE {p \in ReadDir(f, dir) : Len(Last(p)) = nameLen /\ StartsWith(Last(p), sha_file)}

\* The lookup shared by find_object and cat_file: the entries of
\* .git/objects/<q[0..2]> whose name has nameLen characters and starts with
\* q[2..].  "none" when the query is too short or a directory is missing.
Lookup(f, q, nameLen) ==
    IF ~(Len(q) > 3) THEN {}
    ELSE LET sha_dir == Take(q, 2)
             sha_file == Drop(q, 2)
             dir == <<DOT_GIT, OBJECTS, sha_dir>>
         IN  IF ~IsDir(f, <<DOT_GIT, OBJECTS>>) \/ ~IsDir(f, dir) THEN {}
             ELSE {p \in ReadDir(f, dir) : Len(Last(p)) = nameLen /\ StartsWith(Last(p), sha_file)}

\* find_object: any of the matching entries (the first one the directory
\* listing yields), or an error
find_object(f, q) ==
    LET found == Lookup(f, q, SHA_DISPLAY_LEN - 2)
    IN  IF found = {} THEN {[ok |-> FALSE, path |-> <<>>]}
        ELSE {[ok |-> TRUE, path |-> p] : p \in found}

\* ------------------------------------------------------------------------
\* cat-file and its parsers
\* ------------------------------------------------------------------------
\* parse_type: alt((tag("blob"), tag("tree"), tag("commit"), tag("tag")))
parse_type(object) ==
    IF StartsWith(object, S_blob) THEN [ok |-> TRUE, rest |-> 5, type |-> S_blob]
    ELSE IF StartsWith(object, S_tree) THEN [ok |-> TRUE, rest |-> 5, type |-> S_tree]
    ELSE IF StartsWith(object, S_commit) THEN [ok |-> TRUE, rest |-> 7, type |-> S_commit]
    ELSE IF StartsWith(object, S_tag) THEN [ok |-> TRUE, rest |-> 4, type |-> S_tag]
    ELSE [ok |-> FALSE, rest |-> 1, type |-> <<>>]

\* parse_size from index i: digit1, then parse::<usize>
parse_size(object, i) ==
    LET j == DigitsEnd(object, i)
    IN  IF j = i THEN [ok |-> FALSE, rest |-> i, size |-> 0]
        ELSE [ok |-> TRUE, rest |-> j, size |-> ParseDec(object, i, j, 0)]

\* a variant of parse_contents that does not compare the size with the
\* number of bytes
parse_contents_unsized(object) ==
    LET t == parse_type(object)
        sz == parse_size(object, t.rest + 1)
        bad == [ok |-> FALSE, contents |-> <<>>]
    IN  IF ~t.ok THEN bad
        ELSE IF ~(t.rest <= Len(object) /\ object[t.rest] = SP) THEN bad
        ELSE IF ~sz.ok THEN bad
        ELSE IF ~(sz.rest <= Len(object) /\ object[sz.rest] = NUL) THEN bad
        ELSE [ok |-> TRUE, contents |-> Drop(object, sz.rest)]

\* parse_contents: type, ' ', size, '\0', and exactly size bytes
parse_contents(object) ==
    LET t == parse_type(object)
        sz == parse_size(object, t.rest + 1)
        bad == [ok |-> FALSE, contents |-> <<>>]
    IN  IF ~t.ok THEN bad
        ELSE IF ~(t.rest <= Len(object) /\ object[t.rest] = SP) THEN bad
        ELSE IF ~sz.ok THEN bad
        ELSE IF ~(sz.rest <= Len(object) /\ object[sz.rest] = NUL) THEN bad
        ELSE IF Len(object) - sz.rest # sz.size THEN bad
        ELSE [ok |-> TRUE, contents |-> Drop(object, sz.rest)]

\* the three arms of cat_file on the opened object file
cat_file_at(f, info, path) ==
    LET z == ZlibDecode(f[path].data, 1)
    IN  IF info = "Type" THEN
            \* read_exact into a 64-byte buffer
            IF ~z.ok \/ Len(z.data) < TYPE_BUF_LEN THEN Err(f, <<>>)
            ELSE LET t == parse_type(Take(z.data, TYPE_BUF_LEN))
                 IN  IF t.ok THEN Ok(f, t.type) ELSE Err(f, <<>>)
        ELSE IF info = "Size" THEN
            IF ~z.ok \/ Len(z.data) < TYPE_BUF_LEN THEN Err(f, <<>>)
            ELSE LET buf == Take(z.data, TYPE_BUF_LEN)
                     t == parse_type(buf)
                     sz == parse_size(buf, t.rest + 1)
                 IN  IF ~t.ok THEN Err(f, <<>>)
                     ELSE IF buf[t.rest] # SP THEN Err(f, <<>>)
                     ELSE IF ~sz.ok THEN Err(f, <<>>)
                     ELSE Ok(f, Dec(sz.size))
        ELSE
            IF ~z.ok THEN Err(f, <<>>)
            ELSE LET c == parse_contents(z.data)
                 IN  IF c.ok THEN Ok(f, c.contents) ELSE Err(f, <<>>)

\* cat_file: the possible results, one per entry the lookup may yield first
cat_file(f, info, q) ==
    LET found == Lookup(f, q, CAT_SHA_LEN - 2)
    IN  IF found = {} THEN {Err(f, <<>>)}
        ELSE IF \E p \in found : f[p].t # "file" THEN {Err(f, <<>>)}
        ELSE {cat_file_at(f, info, p) : p \in found}

\* ------------------------------------------------------------------------
\* write-tree
\* ------------------------------------------------------------------------
S_vscode == <<46, 118, 115, 99, 111, 100, 101>>  \* ".vscode"
S_target == <<116, 97, 114, 103, 101, 116>>  \* "target"
IGNORE == {DOT_GIT, S_vscode, S_target}

MODE_TREE == 40000
MODE_SYMLINK == 120000
MODE_EXEC == 100755
MODE_FILE == 100644

\* slice comparison of bytes: "Less", "Equal" or "Greater"
LexCmp(l, r) ==
    LET n == IF Len(l) < Len(r) THEN Len(l) ELSE Len(r)
        diff == {k \in 1..n : l[k] # r[k]}
    IN  IF diff = {}
        THEN (IF Len(l) < Len(r) THEN "Less" ELSE IF Len(l) > Len(r) THEN "Greater" ELSE "Equal")
        ELSE LET k == CHOOSE k \in diff : \A j \in diff : k <= j
             IN  IF l[k] < r[k] THEN "Less" ELSE "Greater"

\* a variant of EntryCmp without the case of the common prefix
EntryCmp_plain(left, right) == LexCmp(left, right)

\* the comparator given to sort_unstable_by
EntryCmp(left, right) ==
    LET small_len == IF Len(left) < Len(right) THEN Len(left) ELSE Len(right)
    IN  IF Take(left, small_len) = Take(right, small_len)
        THEN (IF Len(left) > Len(right) THEN "Less"
              ELSE IF Len(left) < Len(right) THEN "Greater" ELSE "Equal")
        ELSE LexCmp(left, right)

\* sort_unstable_by on a short slice is an insertion sort: each element is
\* moved left past the elements it compares Less than
RECURSIVE InsertEntry(_, _)
InsertEntry(sorted, e) ==
    IF sorted = <<>> THEN <<e>>
    ELSE IF EntryCmp(e.name, Last(sorted).name) = "Less"
         THEN InsertEntry(Take(sorted, Len(sorted) - 1), e) \o <<Last(sorted)>>
         ELSE sorted \o <<e>>

RECURSIVE SortEntries(_)
SortEntries(es) ==
    IF es = <<>> THEN <<>>
    ELSE InsertEntry(SortEntries(Take(es, Len(es) - 1)), Last(es))

\* write!(contents, "{} ", mode); name; "\0"; the 20 bytes of the hash
RECURSIVE EncodeEntries(_)
EncodeEntries(es) ==
    IF es = <<>> THEN <<>>
    ELSE Dec(es[1].mode) \o <<SP>> \o es[1].name \o <<NUL>> \o es[1].hash
         \o EncodeEntries(Drop(es, 1))

\* fs::read(path): a symbolic link is followed to the file it names (in
\* the directory of the link)
ReadPath(f, p) ==
    LET q == IF Exists(f, p) /\ f[p].t = "link" THEN Parent(p) \o <<f[p].data>> ELSE p
    IN  IF IsFile(f, q) THEN [ok |-> TRUE, data |-> f[q].data]
        ELSE [ok |-> FALSE, data |-> <<>>]

\* the tree object of the contents: the header, the SHA-1 of header and
\* contents, create_object and the compressed copy
TreeWritten(w, hash) == [ok |-> w.ok, fs |-> w.fs, hash |-> IF w.ok THEN hash ELSE <<>>]
write_tree_object(f, contents) ==
    LET framed == Header("tree", contents) \o contents
        hash == Sha1(framed)
    IN  TreeWritten(write_object(f, hash, framed), hash)

\* write_tree_at(path), the directory listings being given by lst: a
\* function from directories to the sequence of their entries
RECURSIVE write_tree_at(_, _, _)
RECURSIVE CollectEntries(_, _, _, _)

\* entries.push(..) of the entry made for a listed name, and the rest of
\* the loop; a failed entry ends the loop with its error
WithEntry(e, rest) ==
    [ok |-> rest.ok, fs |-> rest.fs,
     entries |-> <<[mode |-> e.mode, name |-> e.name, hash |-> e.hash]>> \o rest.entries]
PushEntry(e, listing, i, lst) ==
    IF ~e.ok THEN [ok |-> FALSE, fs |-> e.fs, entries |-> <<>>]
    ELSE WithEntry(e, CollectEntries(e.fs, listing, i + 1, lst))

\* the entry of a directory: mode 40000 and the hash of its tree
DirEntry(name, sub) ==
    [ok |-> sub.ok, fs |-> sub.fs, mode |-> MODE_TREE, name |-> name, hash |-> sub.hash]

\* the entry of anything else: the hash of the blob of what fs::read
\* yields, and the mode from the metadata of the entry itself
BlobEntry(name, mode, h) ==
    [ok |-> h.status = "ok", fs |-> h.fs, mode |-> mode, name |-> name, hash |-> h.out]
\* a variant of FileEntry that computes the hash of the blob and does
\* not store it
FileEntry_unwritten(f, p) ==
    LET rd == ReadPath(f, p)
        mode == IF f[p].t = "link" THEN MODE_SYMLINK
                ELSE IF f[p].x THEN MODE_EXEC ELSE MODE_FILE
    IN  IF ~rd.ok THEN [ok |-> FALSE, fs |-> f, mode |-> mode, name |-> Last(p), hash |-> <<>>]
        ELSE BlobEntry(Last(p), mode, hash_object(f, FALSE, "blob", rd.data, FALSE))
\* the entry of anything else, made from the path
FileEntry(f, p) ==
    LET rd == ReadPath(f, p)
        mode == IF f[p].t = "link" THEN MODE_SYMLINK
                ELSE IF f[p].x THEN MODE_EXEC ELSE MODE_FILE
    IN  IF ~rd.ok THEN [ok |-> FALSE, fs |-> f, mode |-> mode, name |-> Last(p), hash |-> <<>>]
        ELSE BlobEntry(Last(p), mode, hash_object(f, TRUE, "blob", rd.data, FALSE))

\* the loop over fs::read_dir(path), from the i-th listed entry on
CollectEntries(f, listing, i, lst) ==
    IF i > Len(listing) THEN [ok |-> TRUE, fs |-> f, entries |-> <<>>]
    ELSE IF Last(listing[i]) \in IGNORE THEN CollectEntries(f, listing, i + 1, lst)
    ELSE IF f[listing[i]].t = "dir"
         THEN PushEntry(DirEntry(Last(listing[i]), write_tree_at(f, listing[i], lst)),
                        listing, i, lst)
         ELSE PushEntry(FileEntry(f, listing[i]), listing, i, lst)

\* the sorted entries encoded and written as a tree
TreeOfEntries(c) ==
    IF ~c.ok THEN [ok |-> FALSE, fs |-> c.fs, hash |-> <<>>]
    ELSE write_tree_object(c.fs, EncodeEntries(SortEntries(c.entries)))

write_tree_at(f, path, lst) == TreeOfEntries(CollectEntries(f, lst[path], 1, lst))

\* write_tree: the tree of the working directory, its hash printed in hex
TreePrinted(t) == IF t.ok THEN Ok(t.fs, Hex(t.hash) \o <<LF>>) ELSE Err(t.fs, <<>>)
write_tree(f, lst) == TreePrinted(write_tree_at(f, <<>>, lst))

\* ------------------------------------------------------------------------
\* Tree parsing and ls-tree
\* ------------------------------------------------------------------------
\* the index of the first occurrence of byte c in s at or after i, or 0
IndexOf(s, c, i) ==
    LET hits == {k \in i..Len(s) : s[k] = c}
    IN  IF hits = {} THEN 0 ELSE CHOOSE k \in hits : \A j \in hits : k <= j

\* parse_header: type, ' ', size, '\0'; yields the index of the first byte
\* of the body
parse_header(object) ==
    LET t == parse_type(object)
        sz == parse_size(object, t.rest + 1)
        bad == [ok |-> FALSE, body |-> 1, type |-> <<>>, size |-> 0]
    IN  IF ~t.ok THEN bad
        ELSE IF ~(t.rest <= Len(object) /\ object[t.rest] = SP) THEN bad
        ELSE IF ~sz.ok THEN bad
        ELSE IF ~(sz.rest <= Len(object) /\ object[sz.rest] = NUL) THEN bad
        ELSE [ok |-> TRUE, body |-> sz.rest + 1, type |-> t.type, size |-> sz.size]

\* parse_contents of parsing.rs: the header, and as many bytes as the size
\* says; yields the type and the bytes
parse_object(object) ==
    LET h == parse_header(object)
    IN  IF ~h.ok THEN [ok |-> FALSE, type |-> <<>>, contents |-> <<>>]
        ELSE IF Len(object) - h.body + 1 # h.size THEN [ok |-> FALSE, type |-> <<>>, contents |-> <<>>]
        ELSE [ok |-> TRUE, type |-> h.type, contents |-> Drop(object, h.body - 1)]

\* mode: take_while_m_n(5, 6, is_digit), parsed as a decimal number
parse_mode(object, i) ==
    LET j == DigitsEnd(object, i)
        e == IF j - i > 6 THEN i + 6 ELSE j
    IN  IF j - i < 5 THEN [ok |-> FALSE, rest |-> i, mode |-> 0]
        ELSE [ok |-> TRUE, rest |-> e, mode |-> ParseDec(object, i, e, 0)]

NoChildren == [some |-> FALSE, list |-> <<>>]

RECURSIVE tree_level(_, _, _)
RECURSIVE parse_entries(_, _, _, _)

\* many0(entry(recurse)) from index i: the entries up to the first one that
\* does not parse
parse_entries(f, object, i, recurse) ==
    LET m == parse_mode(object, i)
        nul == IndexOf(object, NUL, m.rest + 1)
        name == SubSeq(object, m.rest + 1, nul - 1)
        hash == SubSeq(object, nul + 1, nul + SHA_LEN)
        tree == m.mode = MODE_TREE
        sub == tree_level(f, Hex(hash), TRUE)
    IN  IF ~m.ok THEN <<>>
        ELSE IF ~(m.rest <= Len(object) /\ object[m.rest] = SP) THEN <<>>
        ELSE IF nul = 0 \/ nul = m.rest + 1 THEN <<>>
        ELSE IF Len(object) < nul + SHA_LEN THEN <<>>
        ELSE IF tree /\ recurse /\ ~sub.ok THEN <<>>
        ELSE <<[mode |-> m.mode, hash |-> hash, name |-> name, tree |-> tree,
                children |-> IF tree /\ recurse
                             THEN [some |-> TRUE, list |-> sub.entries] ELSE NoChildren]>>
             \o parse_entries(f, object, nul + SHA_LEN + 1, recurse)

\* parse_tree(recurse) on the inflated object
parse_tree(f, object, recurse) ==
    LET h == parse_header(object)
    IN  IF ~h.ok THEN [ok |-> FALSE, entries |-> <<>>]
        ELSE IF h.type # S_tree THEN [ok |-> FALSE, entries |-> <<>>]
        ELSE IF Len(object) - h.body + 1 # h.size THEN [ok |-> FALSE, entries |-> <<>>]
        ELSE [ok |-> TRUE, entries |-> parse_entries(f, object, h.body, recurse)]

\* tree_level on the object file that find_object yields for the hash
tree_level_at(f, path, recurse) ==
    LET z == IF f[path].t = "file" THEN ZlibDecode(f[path].data, 1)
             ELSE [ok |-> FALSE, data |-> <<>>, total_in |-> 0]
    IN  IF ~z.ok THEN [ok |-> FALSE, entries |-> <<>>]
        ELSE parse_tree(f, z.data, recurse)

tree_level(f, hash, recurse) ==
    LET found == find_object(f, hash)
        r == CHOOSE r \in found : TRUE
    IN  IF ~r.ok THEN [ok |-> FALSE, entries |-> <<>>]
        ELSE tree_level_at(f, r.path, recurse)

\* "{:06}" of the mode
Pad6(digits) == [k \in 1..(6 - Len(digits)) |-> 48] \o digits

\* impl fmt::Display for Entry
RECURSIVE FmtEntry(_, _)
RECURSIVE FmtEntries(_, _)
FmtEntries(es, display) ==
    IF es = <<>> THEN <<>> ELSE FmtEntry(es[1], display) \o FmtEntries(Drop(es, 1), display)
\* a variant of FmtEntry that cuts the hash to abbrev characters
FmtEntry_chars(e, display) ==
    IF display.trees_only /\ ~e.tree THEN <<>>
    ELSE (IF ~display.name_only
          THEN Pad6(Dec(e.mode)) \o <<TAB>> \o (IF e.tree THEN S_tree ELSE S_blob) \o <<TAB>>
               \o Take(Hex(e.hash), display.abbrev) \o <<TAB>>
          ELSE <<>>)
         \o e.name \o <<LF>>
         \o (IF e.children.some THEN FmtEntries(e.children.list, display) ELSE <<>>)

FmtEntry(e, display) ==
    IF display.trees_only /\ ~e.tree THEN <<>>
    ELSE (IF ~display.name_only
          THEN Pad6(Dec(e.mode)) \o <<TAB>> \o (IF e.tree THEN S_tree ELSE S_blob) \o <<TAB>>
               \o Hex(Take(e.hash, display.abbrev)) \o <<TAB>>
          ELSE <<>>)
         \o e.name \o <<LF>>
         \o (IF e.children.some THEN FmtEntries(e.children.list, display) ELSE <<>>)

\* ls_tree: the possible results, one per object file find_object may yield
ls_tree(f, recurse, trees_only, name_only, abbrev, hash) ==
    IF ~(abbrev <= SHA_LEN) THEN {Err(f, <<>>)}
    ELSE {IF ~r.ok THEN Err(f, <<>>)
          ELSE LET t == tree_level_at(f, r.path, recurse)
               IN  IF ~t.ok THEN Err(f, <<>>)
                   ELSE Ok(f, FmtEntries(t.entries,
                               [trees_only |-> trees_only, name_only |-> name_only, abbrev |-> abbrev]))
          : r \in find_object(f, hash)}

\* ------------------------------------------------------------------------
\* The config file
\* ------------------------------------------------------------------------
S_user == <<117, 115, 101, 114>>  \* "user"
S_name == <<110, 97, 109, 101>>  \* "name"
S_email == <<101, 109, 97, 105, 108>>  \* "email"
S_Anonymous == <<65, 110, 111, 110, 121, 109, 111, 117, 115>>  \* "Anonymous"
S_NA == <<78, 47, 65>>  \* "N/A"
S_eq == <<32, 61, 32>>  \* " = "

IsSpace(c) == c \in {9, 10, 11, 12, 13, 32}

\* str::trim
Trim(s) ==
    LET keep == {k \in 1..Len(s) : ~IsSpace(s[k])}
    IN  IF keep = {} THEN <<>>
        ELSE SubSeq(s, CHOOSE k \in keep : \A j \in keep : k <= j,
                       CHOOSE k \in keep : \A j \in keep : k >= j)

\* str::trim_matches(['[', ']'])
TrimBrackets(s) ==
    LET keep == {k \in 1..Len(s) : s[k] # 91 /\ s[k] # 93}
    IN  IF keep = {} THEN <<>>
        ELSE SubSeq(s, CHOOSE k \in keep : \A j \in keep : k <= j,
                       CHOOSE k \in keep : \A j \in keep : k >= j)

\* the pieces of s between the occurrences of the byte sep
RECURSIVE SplitOn(_, _)
SplitOn(s, sep) ==
    LET k == IndexOf(s, sep, 1)
    IN  IF k = 0 THEN <<s>> ELSE <<Take(s, k - 1)>> \o SplitOn(Drop(s, k), sep)

\* str::lines: split at "\n", no final empty line, a trailing "\r" dropped
Lines(s) ==
    LET parts == SplitOn(s, LF)
        ls == IF Last(parts) = <<>> THEN Take(parts, Len(parts) - 1) ELSE parts
    IN  [k \in 1..Len(ls) |->
            IF ls[k] # <<>> /\ Last(ls[k]) = 13 THEN Take(ls[k], Len(ls[k]) - 1) ELSE ls[k]]

\* str::split_once(" = "): the index of the first " = " in s, or 0
FindEq(s) ==
    LET hits == {k \in 1..(Len(s) - 2) : SubSeq(s, k, k + 2) = S_eq}
    IN  IF hits = {} THEN 0 ELSE CHOOSE k \in hits : \A j \in hits : k <= j

\* the loop of read_config over the lines from the i-th on; st holds the
\* sections pushed so far, the pairs of the current section and its name
RECURSIVE ReadConfigLines(_, _, _)
ReadConfigLines(ls, i, st) ==
    IF i > Len(ls) THEN
        [ok |-> TRUE,
         sections |-> IF st.named
                      THEN st.sections \o <<[name |-> st.section_name, keys_values |-> st.section]>>
                      ELSE st.sections]
    ELSE LET line == Trim(ls[i])
             eq == FindEq(line)
         IN  IF line # <<>> /\ line[1] = 91 /\ Last(line) = 93 THEN
                 ReadConfigLines(ls, i + 1,
                     IF st.named
                     THEN [sections |-> st.sections
                                        \o <<[name |-> st.section_name, keys_values |-> st.section]>>,
                           section |-> <<>>, named |-> TRUE, section_name |-> TrimBrackets(line)]
                     ELSE [st EXCEPT !.named = TRUE, !.section_name = TrimBrackets(line)])
             ELSE IF line # <<>> THEN
                 IF eq = 0 THEN [ok |-> FALSE, sections |-> <<>>]
                 ELSE ReadConfigLines(ls, i + 1,
                         [st EXCEPT !.section = @ \o <<[key |-> Take(line, eq - 1),
                                                       value |-> Drop(line, eq + 2)]>>])
             ELSE ReadConfigLines(ls, i + 1, st)

\* read_config: no sections when the file cannot be read
read_config(f) ==
    IF ~IsFile(f, <<DOT_GIT, CONFIG>>) THEN [ok |-> TRUE, sections |-> <<>>]
    ELSE ReadConfigLines(Lines(f[<<DOT_GIT, CONFIG>>].data), 1,
            [sections |-> <<>>, section |-> <<>>, named |-> FALSE, section_name |-> <<>>])

\* find_map over the sections, then over the pairs of the section found
FindValue(c, section, key) ==
    LET ss == {k \in 1..Len(c.sections) : c.sections[k].name = section}
        kvs == c.sections[CHOOSE k \in ss : \A j \in ss : k <= j].keys_values
        ks == {k \in 1..Len(kvs) : kvs[k].key = key}
    IN  IF ~c.ok THEN [ok |-> FALSE, some |-> FALSE, value |-> <<>>]
        ELSE IF ss = {} THEN [ok |-> TRUE, some |-> FALSE, value |-> <<>>]
        ELSE IF ks = {} THEN [ok |-> TRUE, some |-> FALSE, value |-> <<>>]
        ELSE [ok |-> TRUE, some |-> TRUE, value |-> kvs[CHOOSE k \in ks : \A j \in ks : k <= j].value]

\* get_config_value: the first pair with the key in the first section with
\* the name
get_config_value(f, section, key) == FindValue(read_config(f), section, key)

\* write_config: File::create, then "[section]\n" and "\tkey = value\n" for
\* every section and every pair of it
RECURSIVE FmtPairs(_)
FmtPairs(kvs) ==
    IF kvs = <<>> THEN <<>>
    ELSE <<TAB>> \o kvs[1].key \o S_eq \o kvs[1].value \o <<LF>> \o FmtPairs(Drop(kvs, 1))
RECURSIVE FmtSections(_)
FmtSections(sections) ==
    IF sections = <<>> THEN <<>>
    ELSE <<91>> \o sections[1].name \o <<93, LF>> \o FmtPairs(sections[1].keys_values)
         \o FmtSections(Drop(sections, 1))
write_config(f, sections) == WriteFile(f, <<DOT_GIT, CONFIG>>, FmtSections(sections))

\* the pairs with the value of the first pair with the key replaced, or
\* with the pair pushed
SetPair(kvs, key, value) ==
    LET ks == {k \in 1..Len(kvs) : kvs[k].key = key}
    IN  IF ks = {} THEN kvs \o <<[key |-> key, value |-> value]>>
        ELSE [kvs EXCEPT ![CHOOSE k \in ks : \A j \in ks : k <= j].value = value]

\* the sections with the section pushed when there is none with the name
WithSection(sections, section) ==
    IF \E k \in 1..Len(sections) : sections[k].name = section THEN sections
    ELSE sections \o <<[name |-> section, keys_values |-> <<>>]>>

\* the sections with the pair set in the first section with the name
SetInSections(sections, section, key, value) ==
    LET ss == {k \in 1..Len(sections) : sections[k].name = section}
    IN  [sections EXCEPT ![CHOOSE k \in ss : \A j \in ss : k <= j].keys_values = SetPair(@, key, value)]

\* set_config_value: read_config, the pair set, write_config
ConfigWritten(w) == IF w.ok THEN Ok(w.fs, <<>>) ELSE Err(w.fs, <<>>)
SetConfig(f, c, section, key, value) ==
    IF ~c.ok THEN Err(f, <<>>)
    ELSE ConfigWritten(write_config(f, SetInSections(WithSection(c.sections, section), section, key, value)))
set_config_value(f, section, key, value) == SetConfig(f, read_config(f), section, key, value)

\* section.trim_end_matches('"').replace(" \"", ".")
TrimEndQuotes(s) ==
    LET keep == {k \in 1..Len(s) : s[k] # 34}
    IN  IF keep = {} THEN <<>> ELSE Take(s, CHOOSE k \in keep : \A j \in keep : k >= j)
RECURSIVE ReplaceSpQuote(_)
ReplaceSpQuote(s) ==
    IF s = <<>> THEN <<>>
    ELSE IF Len(s) >= 2 /\ s[1] = SP /\ s[2] = 34 THEN <<46>> \o ReplaceSpQuote(Drop(s, 2))
    ELSE <<s[1]>> \o ReplaceSpQuote(Drop(s, 1))

\* list_config: "section.key=value\n" for every pair
RECURSIVE ListPairs(_, _)
ListPairs(name, kvs) ==
    IF kvs = <<>> THEN <<>>
    ELSE name \o <<46>> \o kvs[1].key \o <<61>> \o kvs[1].value \o <<LF>> \o ListPairs(name, Drop(kvs, 1))
RECURSIVE ListSections(_)
ListSections(sections) ==
    IF sections = <<>> THEN <<>>
    ELSE ListPairs(ReplaceSpQuote(TrimEndQuotes(sections[1].name)), sections[1].keys_values)
         \o ListSections(Drop(sections, 1))
ListOf(f, c) == IF ~c.ok THEN Err(f, <<>>) ELSE Ok(f, ListSections(c.sections))
list_config(f) == ListOf(f, read_config(f))

\* config --get key: the value is written without a line feed
GotValue(f, v) == IF ~v.ok \/ ~v.some THEN Err(f, <<>>) ELSE Ok(f, v.value)

\* config: action is "Get", "Set" or "List"; key is "section.key", split at
\* its first '.'
config(f, action, key, value) ==
    LET dot == IndexOf(key, 46, 1)
    IN  IF action = "List" THEN list_config(f)
        ELSE IF dot = 0 THEN Err(f, <<>>)
        ELSE IF action = "Get" THEN GotValue(f, get_config_value(f, Take(key, dot - 1), Drop(key, dot)))
        ELSE set_config_value(f, Take(key, dot - 1), Drop(key, dot), value)

\* ------------------------------------------------------------------------
\* HEAD
\* ------------------------------------------------------------------------
S_ref_sp == <<114, 101, 102, 58, 32>>  \* "ref: "
SLASH == 47

\* a variant of head_ref_at that takes a HEAD file without "ref: " as the
\* path of the ref
head_ref_at_any(f) ==
    LET head_file == Trim(f[<<DOT_GIT, HEAD>>].data)
    IN  IF ~IsFile(f, <<DOT_GIT, HEAD>>) THEN [ok |-> FALSE, path |-> <<>>]
        ELSE IF ~StartsWith(head_file, S_ref_sp) THEN [ok |-> TRUE, path |-> <<DOT_GIT, head_file>>]
        ELSE [ok |-> TRUE, path |-> <<DOT_GIT>> \o SplitOn(Drop(head_file, Len(S_ref_sp)), SLASH)]

\* Path::new(DOT_GIT).join(head_file.trim().strip_prefix("ref: ")?)
head_ref_at(f) ==
    LET head_file == Trim(f[<<DOT_GIT, HEAD>>].data)
    IN  IF ~IsFile(f, <<DOT_GIT, HEAD>>) THEN [ok |-> FALSE, path |-> <<>>]
        ELSE IF ~StartsWith(head_file, S_ref_sp) THEN [ok |-> FALSE, path |-> <<>>]
        ELSE [ok |-> TRUE, path |-> <<DOT_GIT>> \o SplitOn(Drop(head_file, Len(S_ref_sp)), SLASH)]

\* fs::read_to_string(head_ref_at).ok()
ReadRef(f, at) ==
    IF ~at.ok THEN [ok |-> FALSE, some |-> FALSE, value |-> <<>>]
    ELSE IF IsFile(f, at.path) THEN [ok |-> TRUE, some |-> TRUE, value |-> f[at.path].data]
    ELSE [ok |-> TRUE, some |-> FALSE, value |-> <<>>]

\* get_head: the contents of the ref file HEAD names, if it can be read
get_head(f) == ReadRef(f, head_ref_at(f))

\* fs::write(head_ref_at, commit_hash)
RefWritten(w) == [ok |-> w.ok, fs |-> w.fs]
WriteRef(f, at, commit_hash) ==
    IF ~at.ok THEN [ok |-> FALSE, fs |-> f] ELSE RefWritten(WriteFile(f, at.path, commit_hash))

\* update_head: fs::write of the hash to the ref file HEAD names
update_head(f, commit_hash) == WriteRef(f, head_ref_at(f), commit_hash)

\* ------------------------------------------------------------------------
\* commit-tree and commit
\* ------------------------------------------------------------------------
S_tree_sp == <<116, 114, 101, 101, 32>>  \* "tree "
S_parent_sp == <<112, 97, 114, 101, 110, 116, 32>>  \* "parent "
S_author_sp == <<97, 117, 116, 104, 111, 114, 32>>  \* "author "
S_committer_sp == <<99, 111, 109, 109, 105, 116, 116, 101, 114, 32>>  \* "committer "
\* "New commit saved with message:\n"
S_commit_msg == <<78, 101, 119, 32, 99, 111, 109, 109, 105, 116, 32, 115, 97, 118, 101, 100, 32, 119, 105, 116, 104, 32, 109, 101, 115, 115, 97, 103, 101, 58, 10>>

\* path.to_str().replace('/', ""): the names of the path, concatenated
RECURSIVE PathString(_)
PathString(p) == IF p = <<>> THEN <<>> ELSE p[1] \o PathString(Drop(p, 1))

\* a variant of get_full_hash that keeps the hash as it was typed
get_full_hash_typed(f, hash) ==
    {IF ~r.ok THEN [ok |-> FALSE, hash |-> <<>>] ELSE [ok |-> TRUE, hash |-> Trim(hash)]
     : r \in find_object(f, Trim(hash))}

\* get_full_hash: the last 40 characters of the path find_object yields
get_full_hash(f, hash) ==
    {IF ~r.ok THEN [ok |-> FALSE, hash |-> <<>>]
     ELSE LET str == PathString(r.path)
          IN  [ok |-> TRUE, hash |-> Drop(str, Len(str) - SHA_DISPLAY_LEN)]
     : r \in find_object(f, Trim(hash))}

\* the loop over the parents: the possible "parent <hash>\n" lines
RECURSIVE ParentLines(_, _)
ParentLines(f, parents) ==
    IF parents = <<>> THEN {[ok |-> TRUE, lines |-> <<>>]}
    ELSE {IF ~h.ok THEN [ok |-> FALSE, lines |-> <<>>]
          ELSE IF ~rest.ok THEN [ok |-> FALSE, lines |-> <<>>]
          ELSE [ok |-> TRUE, lines |-> S_parent_sp \o h.hash \o <<LF>> \o rest.lines]
          : h \in get_full_hash(f, parents[1]), rest \in ParentLines(f, Drop(parents, 1))}

\* chrono::Local::now().format("%s %z")
FormatNow(now) == Dec(now.secs) \o <<SP>> \o now.tz

\* Option::unwrap_or_else
UnwrapOr(v, default) == IF v.some THEN v.value ELSE default

\* the author line, the committer line, the empty line and the message,
\* each written with writeln!
SignedMessage(name, email, message, now1, now2) ==
    S_author_sp \o name \o <<SP, 60>> \o email \o <<62, SP>> \o FormatNow(now1) \o <<LF>>
    \o S_committer_sp \o name \o <<SP, 60>> \o email \o <<62, SP>> \o FormatNow(now2)
    \o <<LF, LF>> \o message \o <<LF>>

\* the tree line: the full hash of the tree given, or else what write_tree
\* prints
TreePrintedLine(wt) == [ok |-> wt.status = "ok", fs |-> wt.fs, line |-> wt.out]
TreeLines(f, tree_hash, lst) ==
    IF tree_hash.some
    THEN {[ok |-> h.ok, fs |-> f, line |-> h.hash \o <<LF>>] : h \in get_full_hash(f, tree_hash.value)}
    ELSE {TreePrintedLine(write_tree(f, lst))}

\* the commit object of the contents: the header, the SHA-1 of header and
\* contents, create_object and the compressed copy, and the hash in hex
CommitWritten(w, hash) == IF w.ok THEN Ok(w.fs, Hex(hash) \o <<LF>>) ELSE Err(w.fs, <<>>)
write_commit_object(f, contents) ==
    LET framed == Header("commit", contents) \o contents
        hash == Sha1(framed)
    IN  CommitWritten(write_object(f, hash, framed), hash)

\* commit_tree once the name and the email are read from the config
commit_tree_as(f, parents, message, tree_hash, lst, now1, now2, name, email) ==
    IF ~name.ok \/ ~email.ok THEN {Err(f, <<>>)}
    ELSE UNION {
         {IF ~t.ok THEN Err(t.fs, <<>>)
          ELSE IF ~ps.ok THEN Err(t.fs, <<>>)
          ELSE write_commit_object(t.fs,
                   S_tree_sp \o t.line \o ps.lines
                   \o SignedMessage(UnwrapOr(name, S_Anonymous), UnwrapOr(email, S_NA),
                                    message, now1, now2))
          : ps \in ParentLines(t.fs, parents)}
         : t \in TreeLines(f, tree_hash, lst)}

\* commit_tree: the possible results.  tree_hash is [some, value]; now1 and
\* now2 are the two readings of the clock; lst gives the directory listings
\* for write_tree.
commit_tree(f, parents, message, tree_hash, lst, now1, now2) ==
    commit_tree_as(f, parents, message, tree_hash, lst, now1, now2,
                   get_config_value(f, S_user, S_name), get_config_value(f, S_user, S_email))

\* update_head with the hash commit_tree printed, then the message
HeadUpdated(u, message) == IF u.ok THEN Ok(u.fs, S_commit_msg \o message) ELSE Err(u.fs, <<>>)

\* a variant of commit_from that gives the new commit no parent
commit_from_orphan(f, parent, message, lst, now1, now2) ==
    IF ~parent.ok THEN {Err(f, <<>>)}
    ELSE {IF c.status # "ok" THEN Err(c.fs, <<>>)
          ELSE HeadUpdated(update_head(c.fs, Trim(c.out)), message)
          : c \in commit_tree(f, <<>>, message, [some |-> FALSE, value |-> <<>>], lst, now1, now2)}

\* commit once the head is read
commit_from(f, parent, message, lst, now1, now2) ==
    IF ~parent.ok THEN {Err(f, <<>>)}
    ELSE {IF c.status # "ok" THEN Err(c.fs, <<>>)
          ELSE HeadUpdated(update_head(c.fs, Trim(c.out)), message)
          : c \in commit_tree(f, IF parent.some THEN <<parent.value>> ELSE <<>>,
                              message, [some |-> FALSE, value |-> <<>>], lst, now1, now2)}

\* commit: commit_tree on the tree of the working directory with the head
\* as the parent, then update_head
commit(f, message, lst, now1, now2) == commit_from(f, get_head(f), message, lst, now1, now2)

\* ------------------------------------------------------------------------
\* parse_commit
\* ------------------------------------------------------------------------
\* tag(t) at index i of s
TagAt(s, i, t) == i + Len(t) - 1 <= Len(s) /\ SubSeq(s, i, i + Len(t) - 1) = t

\* take_while_m_n(n, n, is_hex_digit) at index i
HexDigitsAt(s, i, n) == i + n - 1 <= Len(s) /\ \A k \in i..(i + n - 1) : IsHexDigit(s[k])

S_lt == <<32, 60>>  \* " <"
S_gt == <<62, 32>>  \* "> "
\* U+FFFD in UTF-8
REPLACEMENT == <<239, 191, 189>>

\* the index of the first occurrence of pat in s[i..], or 0
FindAt(s, i, pat) ==
    LET hits == {k \in i..(Len(s) - Len(pat) + 1) : SubSeq(s, k, k + Len(pat) - 1) = pat}
    IN  IF hits = {} THEN 0 ELSE CHOOSE k \in hits : \A j \in hits : k <= j

\* take_until1(pat) at index i: the index where pat starts, or 0 when pat
\* does not occur or occurs at i
TakeUntil1(s, i, pat) ==
    LET k == FindAt(s, i, pat)
    IN  IF k = i THEN 0 ELSE k

\* String::from_utf8_lossy on bytes that are ASCII or 0xFF: a byte that can
\* be in no UTF-8 sequence becomes U+FFFD
RECURSIVE Lossy(_)
Lossy(s) ==
    IF s = <<>> THEN <<>>
    ELSE (IF s[1] = 255 THEN REPLACEMENT ELSE <<s[1]>>) \o Lossy(Drop(s, 1))

\* The parsers of a commit take the contents and the state of the parse:
\* whether it has failed, the index of the next byte, and the fields read.
CommitStart ==
    [ok |-> TRUE, i |-> 1, parents |-> <<>>, author |-> <<>>, timestamp |-> 0,
     timezone |-> <<>>, message |-> <<>>]
ParseFailed(st) == [st EXCEPT !.ok = FALSE]

\* newline at index i
NewlineAt(s, i) == i <= Len(s) /\ s[i] = LF

\* tree: tag("tree "), hex_hash, newline
p_tree(s, st) ==
    IF ~st.ok THEN st
    ELSE IF ~TagAt(s, st.i, S_tree_sp) THEN ParseFailed(st)
    ELSE IF ~HexDigitsAt(s, st.i + 5, SHA_DISPLAY_LEN) THEN ParseFailed(st)
    ELSE IF ~NewlineAt(s, st.i + 5 + SHA_DISPLAY_LEN) THEN ParseFailed(st)
    ELSE [st EXCEPT !.i = st.i + 6 + SHA_DISPLAY_LEN]

\* many0(parent): tag("parent "), hex_hash, newline, as long as it parses
RECURSIVE p_parents(_, _)
p_parents(s, st) ==
    IF ~st.ok THEN st
    ELSE IF ~TagAt(s, st.i, S_parent_sp) THEN st
    ELSE IF ~HexDigitsAt(s, st.i + 7, SHA_DISPLAY_LEN) THEN st
    ELSE IF ~NewlineAt(s, st.i + 7 + SHA_DISPLAY_LEN) THEN st
    ELSE p_parents(s, [st EXCEPT !.i = st.i + 8 + SHA_DISPLAY_LEN,
                                 !.parents = @ \o <<SubSeq(s, st.i + 7, st.i + 6 + SHA_DISPLAY_LEN)>>])

\* author: tag("author "), take_until1(" <"), tag(" <"), take_until1("> "),
\* tag("> "); the author is format!("{} <{}>", name, email)
AuthorFound(s, st, lt, gt) ==
    IF lt = 0 \/ gt = 0 THEN ParseFailed(st)
    ELSE [st EXCEPT !.i = gt + 2,
                    !.author = SubSeq(s, st.i + 7, lt - 1) \o S_lt \o SubSeq(s, lt + 2, gt - 1)
                               \o <<62>>]
AuthorName(s, st, lt) ==
    AuthorFound(s, st, lt, IF lt = 0 THEN 0 ELSE TakeUntil1(s, lt + 2, S_gt))
p_author(s, st) ==
    IF ~st.ok THEN st
    ELSE IF ~TagAt(s, st.i, S_author_sp) THEN ParseFailed(st)
    ELSE AuthorName(s, st, TakeUntil1(s, st.i + 7, S_lt))

\* timestamp: digit1, char(' '), and the digits parsed as u32
TimestampRead(s, st, j) ==
    IF j = st.i THEN ParseFailed(st)
    ELSE IF ~(j <= Len(s) /\ s[j] = SP) THEN ParseFailed(st)
    ELSE [st EXCEPT !.i = j + 1, !.timestamp = ParseDec(s, st.i, j, 0)]
p_timestamp(s, st) == IF ~st.ok THEN st ELSE TimestampRead(s, st, DigitsEnd(s, st.i))

\* timezone: one_of("+-"), take_while_m_n(4, 4, is_digit), newline
p_timezone(s, st) ==
    IF ~st.ok THEN st
    ELSE IF ~(st.i <= Len(s) /\ s[st.i] \in {43, 45}) THEN ParseFailed(st)
    ELSE IF ~(st.i + 4 <= Len(s) /\ \A k \in (st.i + 1)..(st.i + 4) : IsDigit(s[k])) THEN ParseFailed(st)
    ELSE IF ~NewlineAt(s, st.i + 5) THEN ParseFailed(st)
    ELSE [st EXCEPT !.i = st.i + 6, !.timezone = SubSeq(s, st.i, st.i + 4)]

\* committer: take_until1("\n"), newline
CommitterLine(st, nl) == IF nl = 0 THEN ParseFailed(st) ELSE [st EXCEPT !.i = nl + 1]
p_committer(s, st) == IF ~st.ok THEN st ELSE CommitterLine(st, TakeUntil1(s, st.i, <<LF>>))

\* message: newline, then everything that is left
p_message(s, st) ==
    IF ~st.ok THEN st
    ELSE IF ~NewlineAt(s, st.i) THEN ParseFailed(st)
    ELSE [st EXCEPT !.i = Len(s) + 1, !.message = Lossy(Drop(s, st.i))]

\* parse_commit: tree, parents, author, timestamp, timezone, committer,
\* message
parse_commit(contents) ==
    p_message(contents, p_committer(contents, p_timezone(contents, p_timestamp(contents,
        p_author(contents, p_parents(contents, p_tree(contents, CommitStart)))))))

\* ------------------------------------------------------------------------
\* log
\* ------------------------------------------------------------------------
S_commit_sp == <<99, 111, 109, 109, 105, 116, 32>>  \* "commit "
S_Merge == <<77, 101, 114, 103, 101, 58, 9>>  \* "Merge:\t"
S_Author == <<65, 117, 116, 104, 111, 114, 58, 9>>  \* "Author:\t"
S_Date == <<68, 97, 116, 101, 58, 9>>  \* "Date:\t"
S_dots == <<46, 46, 46>>  \* "..."

\* %a and %b of chrono
WeekdayNames == <<<<83, 117, 110>>, <<77, 111, 110>>, <<84, 117, 101>>, <<87, 101, 100>>, <<84, 104, 117>>, <<70, 114, 105>>, <<83, 97, 116>>>>
MonthNames == <<<<74, 97, 110>>, <<70, 101, 98>>, <<77, 97, 114>>, <<65, 112, 114>>, <<77, 97, 121>>, <<74, 117, 110>>, <<74, 117, 108>>, <<65, 117, 103>>, <<83, 101, 112>>, <<79, 99, 116>>, <<78, 111, 118>>, <<68, 101, 99>>>>

\* the date of the day that is z days after 1970-01-01, in the proleptic
\* Gregorian calendar
CivilFromDays(z) ==
    LET era == (z + 719468) \div 146097
        doe == (z + 719468) - era * 146097
        yoe == (doe - doe \div 1460 + doe \div 36524 - doe \div 146096) \div 365
        doy == doe - (365 * yoe + yoe \div 4 - yoe \div 100)
        mp == (5 * doy + 2) \div 153
        m == IF mp < 10 THEN mp + 3 ELSE mp - 9
    IN  [year |-> yoe + era * 400 + (IF m <= 2 THEN 1 ELSE 0),
         month |-> m,
         day |-> doy - (153 * mp + 2) \div 5 + 1]

\* two decimal digits, zero padded
Dec2(n) == <<48 + (n \div 10), 48 + (n % 10)>>

\* Local.timestamp_opt(timestamp, 0).single() formatted with
\* "%a %b %d  %H:%M:%S %Y"; the local time zone is UTC
FormatDate(timestamp) ==
    LET days == timestamp \div 86400
        secs == timestamp % 86400
        date == CivilFromDays(days)
    IN  WeekdayNames[((days + 4) % 7) + 1] \o <<SP>> \o MonthNames[date.month] \o <<SP>>
        \o Dec2(date.day) \o <<SP, SP>>
        \o Dec2(secs \div 3600) \o <<58>> \o Dec2((secs % 3600) \div 60) \o <<58>> \o Dec2(secs % 60)
        \o <<SP>> \o Dec(date.year)

\* str::replace of the byte from by the bytes to
RECURSIVE Replace(_, _, _)
Replace(s, from, to) ==
    IF s = <<>> THEN <<>>
    ELSE (IF s[1] = from THEN to ELSE <<s[1]>>) \o Replace(Drop(s, 1), from, to)

\* get_commits(hash, commits): the commits pushed, those of the parents
\* before the commit itself; the possible results
RECURSIVE get_commits(_, _)
RECURSIVE parents_commits(_, _, _)
NoCommits == [ok |-> FALSE, commits |-> <<>>]

\* for parent in &commit.parents { get_commits(parent, commits)? }
parents_commits(f, parents, k) ==
    IF k > Len(parents) THEN {[ok |-> TRUE, commits |-> <<>>]}
    ELSE UNION {IF ~a.ok THEN {NoCommits}
                ELSE {IF ~more.ok THEN NoCommits
                      ELSE [ok |-> TRUE, commits |-> a.commits \o more.commits]
                      : more \in parents_commits(f, parents, k + 1)}
                : a \in get_commits(f, parents[k])}

\* commit.hash = Some(hash); the parents; commits.push(commit)
commit_pushed(f, hash, c) ==
    IF ~c.ok THEN {NoCommits}
    ELSE {IF ~p.ok THEN NoCommits
          ELSE [ok |-> TRUE,
                commits |-> p.commits \o <<[hash |-> hash, parents |-> c.parents,
                                            author |-> c.author, timestamp |-> c.timestamp,
                                            timezone |-> c.timezone, message |-> c.message]>>]
          : p \in parents_commits(f, c.parents, 1)}

get_commits(f, hash) ==
    UNION {IF r.status # "ok" THEN {NoCommits} ELSE commit_pushed(f, hash, parse_commit(r.out))
           : r \in cat_file(f, "Print", hash)}

\* commits.sort_by_key(|commit| cmp::Reverse(commit.timestamp)): a stable
\* sort, so commits of one timestamp stay in the order they were pushed
RECURSIVE SortCommits(_)
InsertCommit(sorted, c) ==
    LET before == {k \in 1..Len(sorted) : sorted[k].timestamp >= c.timestamp}
        n == IF before = {} THEN 0 ELSE CHOOSE k \in before : \A j \in before : j <= k
    IN  Take(sorted, n) \o <<c>> \o Drop(sorted, n)
SortCommits(cs) ==
    IF cs = <<>> THEN <<>> ELSE InsertCommit(SortCommits(Take(cs, Len(cs) - 1)), Last(cs))

\* commits.dedup_by(|left, right| left.hash == right.hash): a commit is
\* removed when the commit kept before it has its hash
RECURSIVE DedupCommits(_)
KeepUnlessSame(kept, c) ==
    IF kept # <<>> /\ Last(kept).hash = c.hash THEN kept ELSE kept \o <<c>>
DedupCommits(cs) ==
    IF cs = <<>> THEN <<>> ELSE KeepUnlessSame(DedupCommits(Take(cs, Len(cs) - 1)), Last(cs))

\* the line of a commit with --oneline
OnelineMessage(message) == IF Len(message) > 40 THEN Take(message, 37) \o S_dots ELSE message
FmtOneline(c) == Take(c.hash, 7) \o <<SP>> \o OnelineMessage(Replace(c.message, LF, <<SP>>)) \o <<LF>>

\* the first seven characters of at most five parents, each followed by a
\* space
RECURSIVE FmtMerge(_, _)
FmtMerge(parents, k) ==
    IF k > Len(parents) \/ k > 5 THEN <<>>
    ELSE Take(parents[k], 7) \o <<SP>> \o FmtMerge(parents, k + 1)

\* the paragraph of a commit without --oneline
FmtFull(c) ==
    S_commit_sp \o c.hash \o <<LF>>
    \o (IF Len(c.parents) > 1 THEN S_Merge \o FmtMerge(c.parents, 1) \o <<LF>> ELSE <<>>)
    \o S_Author \o c.author \o <<LF>>
    \o S_Date \o FormatDate(c.timestamp) \o <<SP>> \o c.timezone \o <<LF>>
    \o <<LF>>
    \o <<TAB>> \o Trim(Replace(c.message, LF, <<LF, TAB>>)) \o <<LF>>
    \o <<LF>>

\* the loop that prints the commits; &hash[..7] panics on a hash of less
\* than seven characters, after the commits before it are printed
RECURSIVE FmtCommits(_, _, _, _)
FmtCommits(f, cs, oneline, out) ==
    IF cs = <<>> THEN Ok(f, out)
    ELSE IF oneline /\ Len(cs[1].hash) < 7 THEN [status |-> "panic", fs |-> f, out |-> out]
    ELSE FmtCommits(f, Drop(cs, 1), oneline,
                    out \o (IF oneline THEN FmtOneline(cs[1]) ELSE FmtFull(cs[1])))

\* log from the commit with the hash start, already trimmed
log_commits(f, oneline, got) ==
    IF ~got.ok THEN Err(f, <<>>)
    ELSE FmtCommits(f, DedupCommits(SortCommits(got.commits)), oneline, <<>>)
log_from(f, oneline, start) == {log_commits(f, oneline, got) : got \in get_commits(f, Trim(start))}

\* the start of log without a hash: the head
log_head(f, oneline, head) ==
    IF ~head.ok \/ ~head.some THEN {Err(f, <<>>)} ELSE log_from(f, oneline, head.value)

\* log: hash is [some, value]; the start is the full hash of the object
\* find_object yields for the hash given, or else the head
log(f, oneline, hash) ==
    IF hash.some
    THEN UNION {IF ~h.ok THEN {Err(f, <<>>)} ELSE log_from(f, oneline, h.hash)
                : h \in get_full_hash(f, hash.value)}
    ELSE log_head(f, oneline, get_head(f))

\* ------------------------------------------------------------------------
\* clone: the fetch protocol and the ingestion of the pack
\* ------------------------------------------------------------------------
OBJ_TYPE_OFFSET_DELTA == 6
OBJ_TYPE_REF_DELTA == 7
PACK_START == 12
PACK_TRAILER == 20

S_service_hdr == <<35, 32, 115, 101, 114, 118, 105, 99, 101, 61>>  \* "# service="
S_service == <<103, 105, 116, 45, 117, 112, 108, 111, 97, 100, 45, 112, 97, 99, 107>>  \* "git-upload-pack"
S_flush == <<48, 48, 48, 48>>  \* "0000"
S_want == <<48, 48, 51, 50, 119, 97, 110, 116, 32>>  \* "0032want "
S_done == <<48, 48, 48, 48, 48, 48, 48, 57, 100, 111, 110, 101, 10>>  \* "00000009done\n"
S_NAK == <<48, 48, 48, 56, 78, 65, 75, 10>>  \* "0008NAK\n"
\* "application/x-git-upload-pack-advertisement"
CT_ADVERTISEMENT == "application/x-git-upload-pack-advertisement"

\* many0(ref_record) from index i: the hashes of the records and the index
\* after the last record that parses
RECURSIVE ref_records(_, _)
ref_records(s, i) ==
    LET sp == i + 4 + SHA_DISPLAY_LEN
        nl == IndexOf(s, LF, sp + 1)
    IN  IF ~HexDigitsAt(s, i, 4) THEN [refs |-> <<>>, rest |-> i]
        ELSE IF ~HexDigitsAt(s, i + 4, SHA_DISPLAY_LEN) THEN [refs |-> <<>>, rest |-> i]
        ELSE IF ~(sp <= Len(s) /\ s[sp] = SP) THEN [refs |-> <<>>, rest |-> i]
        ELSE IF nl = 0 \/ nl = sp + 1 THEN [refs |-> <<>>, rest |-> i]
        ELSE LET more == ref_records(s, nl + 1)
             IN  [refs |-> <<SubSeq(s, i + 4, i + 3 + SHA_DISPLAY_LEN)>> \o more.refs,
                  rest |-> more.rest]

\* advertisement_response(service)
advertisement_response(s) ==
    LET i1 == 5
        i2 == i1 + Len(S_service_hdr)
        i3 == i2 + Len(S_service)
        i4 == i3 + 1
        i5 == i4 + Len(S_flush)
        nl == IndexOf(s, LF, i5)
        rs == ref_records(s, nl + 1)
        bad == [ok |-> FALSE, refs |-> <<>>]
    IN  IF ~HexDigitsAt(s, 1, 4) THEN bad
        ELSE IF ~TagAt(s, i1, S_service_hdr) THEN bad
        ELSE IF ~TagAt(s, i2, S_service) THEN bad
        ELSE IF ~(i3 <= Len(s) /\ s[i3] = LF) THEN bad
        ELSE IF ~TagAt(s, i4, S_flush) THEN bad
        ELSE IF nl = 0 \/ nl = i5 THEN bad
        ELSE IF ~TagAt(s, rs.rest, S_flush) THEN bad
        ELSE [ok |-> TRUE, refs |-> rs.refs]

\* the body of the POST: a want line per ref, then done
RECURSIVE WantLines(_)
WantLines(refs) ==
    IF refs = <<>> THEN <<>> ELSE S_want \o refs[1] \o <<LF>> \o WantLines(Drop(refs, 1))
request_body(refs) == WantLines(refs) \o S_done

\* value << shift on a u64, for the values of the model
Shl(value, shift) == IF value = 0 THEN 0 ELSE value * 2^shift

\* the continuation bytes of a variable-length number: while pack[index] >=
\* 128 the next byte adds its low seven bits, shifted.  index counts from 0.
\* A shift by 64 or more panics when overflow checks are on and shifts by
\* the amount modulo 64 otherwise: wrapped tells that one happened.
RECURSIVE ReadVarint(_, _, _, _)
ReadVarint(pack, index, value, shift) ==
    IF pack[index + 1] >= 128
    THEN IF index + 1 >= Len(pack)
         THEN [panic |-> TRUE, wrapped |-> FALSE, index |-> index, value |-> value]
         ELSE LET more == ReadVarint(pack, index + 1,
                                     value + Shl(pack[index + 2] % 128, shift % 64), shift + 7)
              IN  [more EXCEPT !.wrapped = @ \/ shift >= 64]
    ELSE [panic |-> FALSE, wrapped |-> FALSE, index |-> index + 1, value |-> value]

\* the type and the size of the entry at index, and the index after them
entry_header(pack, index) ==
    LET sz == ReadVarint(pack, index, pack[index + 1] % 16, 4)
    IN  [panic |-> sz.panic, wrapped |-> sz.wrapped, index |-> sz.index, value |-> sz.value,
         type |-> ((pack[index + 1] * 2) % 256) \div 32]

\* the type of an entry for hash_object
PackType(object_type) ==
    CASE object_type = 1 -> "commit"
      [] object_type = 2 -> "tree"
      [] object_type = 3 -> "blob"
      [] object_type = 4 -> "tag"

Panic(f) == [status |-> "panic", fs |-> f, out |-> <<>>]

\* the outcome of one entry: the loop goes on at index ("run"), or ends
\* with break ("ok"), with an error or with a panic
Entered(status, f, index) == [status |-> status, fs |-> f, index |-> index]

\* a variant of ingest_entry that leaves the cursor of a delta entry where
\* the entry starts
ingest_entry_stuck(f, pack, index) ==
    LET sz == entry_header(pack, index)
        isDelta == sz.type \in {OBJ_TYPE_OFFSET_DELTA, OBJ_TYPE_REF_DELTA}
        z == ZlibDecode(pack, sz.index + 1)
    IN  IF sz.panic THEN {Entered("panic", f, index)}
        ELSE IF isDelta THEN {Entered("run", f, index)}
        ELSE IF ~z.ok THEN {Entered("ok", f, sz.index)}
        ELSE IF sz.value # Len(z.data) THEN {Entered("err", f, sz.index)}
        ELSE IF sz.type \notin 1..4 THEN {Entered("panic", f, sz.index + z.total_in)}
        ELSE LET h == hash_object(f, TRUE, PackType(sz.type), z.data, FALSE)
             IN  {Entered(IF h.status # "ok" THEN "err" ELSE "run", h.fs, sz.index + z.total_in)}

\* one pass through the body of the while loop, for the entry at the
\* cursor index
ingest_entry(f, pack, index) ==
    LET sz == entry_header(pack, index)
        object_type == sz.type
        isOfs == object_type = OBJ_TYPE_OFFSET_DELTA
        isRef == object_type = OBJ_TYPE_REF_DELTA
        ofs == ReadVarint(pack, sz.index, pack[sz.index + 1] % 128, 7)
        index2 == IF isOfs THEN ofs.index ELSE IF isRef THEN sz.index + SHA_LEN ELSE sz.index
        z == ZlibDecode(pack, index2 + 1)
        index3 == index2 + z.total_in
        rest ==
            IF ~z.ok THEN {Entered("ok", f, index2)}
            ELSE IF sz.value # Len(z.data) THEN {Entered("err", f, index2)}
            ELSE IF isRef \/ isOfs THEN {Entered("run", f, index3)}
            ELSE IF object_type \notin 1..4 THEN {Entered("panic", f, index3)}
            ELSE LET h == hash_object(f, TRUE, PackType(object_type), z.data, FALSE)
                 IN  {Entered(IF h.status # "ok" THEN "err" ELSE "run", h.fs, index3)}
    IN  IF sz.panic THEN {Entered("panic", f, index)}
        ELSE IF isOfs /\ sz.index >= Len(pack) THEN {Entered("panic", f, sz.index)}
        ELSE IF isOfs /\ ofs.panic THEN {Entered("panic", f, sz.index)}
        ELSE IF isRef /\ Len(pack) - sz.index < SHA_LEN THEN {Entered("panic", f, sz.index)}
        \* a shift that overflows, and index - offset: an underflow panics
        \* when overflow checks are on and wraps otherwise
        ELSE IF sz.wrapped \/ (isOfs /\ (ofs.wrapped \/ ofs.value > ofs.index))
        THEN {Entered("panic", f, index2)} \cup rest
        ELSE rest

\* the test of the while loop and one pass through its body: the slice
\* pack[index..] panics when the cursor is beyond the end
ingest_step(f, pack, index) ==
    IF index > Len(pack) THEN {Entered("panic", f, index)}
    ELSE IF ~(Len(pack) - index > PACK_TRAILER) THEN {Entered("ok", f, index)}
    ELSE ingest_entry(f, pack, index)

\* the while loop over the entries of the pack, from the cursor index on
RECURSIVE ingest(_, _, _)
ingest(f, pack, index) ==
    IF ~(Len(pack) - index > PACK_TRAILER) THEN {Ok(f, <<>>)}
    ELSE UNION {IF e.status = "run" THEN ingest(e.fs, pack, e.index)
                ELSE {[status |-> e.status, fs |-> e.fs, out |-> <<>>]}
                : e \in ingest_entry(f, pack, index)}

\* a variant of clone_into that does not look at the content-type of the
\* advertisement
clone_into_any_type(i, get, post) ==
    LET adv == advertisement_response(get.body)
        body == request_body(adv.refs)
        pack == Drop(post.body, Len(S_NAK))
    IN  IF i.status # "ok" THEN {Err(i.fs, <<>>)}
        ELSE IF get.status \notin {200, 304} THEN {Err(i.fs, <<>>)}
        ELSE IF ~adv.ok THEN {Err(i.fs, <<>>)}
        ELSE IF ~(post.status >= 200 /\ post.status <= 299) THEN {Err(i.fs, body)}
        ELSE IF ~StartsWith(post.body, S_NAK) THEN {Err(i.fs, body)}
        ELSE IF Len(pack) < PACK_START THEN {[status |-> "panic", fs |-> i.fs, out |-> body]}
        ELSE {[r EXCEPT !.out = body] : r \in ingest(i.fs, pack, PACK_START)}

\* clone once init has run: GET of the advertisement, POST of the wants,
\* ingestion of the pack
clone_into(i, get, post) ==
    LET adv == advertisement_response(get.body)
        body == request_body(adv.refs)
        pack == Drop(post.body, Len(S_NAK))
    IN  IF i.status # "ok" THEN {Err(i.fs, <<>>)}
        ELSE IF get.status \notin {200, 304} THEN {Err(i.fs, <<>>)}
        ELSE IF get.content_type = "" THEN {Panic(i.fs)}
        ELSE IF get.content_type # CT_ADVERTISEMENT THEN {Err(i.fs, <<>>)}
        ELSE IF ~adv.ok THEN {Err(i.fs, <<>>)}
        ELSE IF ~(post.status >= 200 /\ post.status <= 299) THEN {Err(i.fs, body)}
        ELSE IF ~StartsWith(post.body, S_NAK) THEN {Err(i.fs, body)}
        ELSE IF Len(pack) < PACK_START THEN {[status |-> "panic", fs |-> i.fs, out |-> body]}
        ELSE {[r EXCEPT !.out = body] : r \in ingest(i.fs, pack, PACK_START)}

\* clone: init, GET of the advertisement, POST of the wants, ingestion.
\* get and post are the responses of the remote; out is the request body
\* sent, if any.
clone(f, get, post) == clone_into(init(f), get, post)

\* ------------------------------------------------------------------------
\* Inputs of the model
\* ------------------------------------------------------------------------
\* "Hello, world"
B_hello == <<72, 101, 108, 108, 111, 44, 32, 119, 111, 114, 108, 100>>
\* sixty bytes 'z': its framed encoding is longer than 64 bytes
B_long == [i \in 1..60 |-> 122]
Bodies == {B_hello, B_long}

N_a == <<97>>  \* "a"
N_a_dash == <<97, 45>>  \* "a-"
N_ab == <<97, 98>>  \* "ab"
N_b == <<98>>  \* "b"
N_d == <<100>>  \* "d"
N_e == <<101>>  \* "e"
N_l == <<108>>  \* "l"
N_missing == <<109>>  \* "m"

\* the working directory of the repository: one file
WorkTree == (<<N_a>> :> FileNode(B_hello, FALSE))

\* the entries the working directories of the tree builder are made of: a
\* file, a file and an executable file whose names extend the name of the
\* first, a directory with a file, a symbolic link to the first file, an
\* ignored directory with a file, and a directory with an ignored
\* directory and a directory that holds a file
PoolEntry(name) ==
    CASE name = N_a -> (<<N_a>> :> FileNode(<<120>>, FALSE))
      [] name = N_a_dash -> (<<N_a_dash>> :> FileNode(<<121>>, FALSE))
      [] name = N_ab -> (<<N_ab>> :> FileNode(<<121>>, TRUE))
      [] name = N_d -> (<<N_d>> :> DirNode) @@ (<<N_d, N_b>> :> FileNode(<<120>>, FALSE))
      [] name = N_l -> (<<N_l>> :> LinkNode(N_a))
      [] name = S_target -> (<<S_target>> :> DirNode) @@ (<<S_target, N_b>> :> FileNode(<<121>>, FALSE))
      [] name = N_e -> (<<N_e>> :> DirNode)
                       @@ (<<N_e, S_vscode>> :> DirNode)
                       @@ (<<N_e, S_vscode, N_a>> :> FileNode(<<120>>, FALSE))
                       @@ (<<N_e, N_d>> :> DirNode)
                       @@ (<<N_e, N_d, N_a>> :> FileNode(<<122>>, FALSE))
NamePool == {N_a, N_a_dash, N_ab, N_d, N_e, N_l, S_target}

RECURSIVE TreeOf(_)
TreeOf(names) ==
    IF names = {} THEN <<>>
    ELSE LET n == CHOOSE n \in names : TRUE IN PoolEntry(n) @@ TreeOf(names \ {n})
WorkTrees == {TreeOf(names) : names \in {ns \in SUBSET NamePool : Cardinality(ns) <= MaxNames}}

\* the orders in which fs::read_dir may yield a set of entries
Perms(S) ==
    {s \in [1..Cardinality(S) -> S] : \A i, j \in 1..Cardinality(S) : i # j => s[i] # s[j]}

\* the directories write_tree lists
KeptDirs(f) ==
    {<<>>} \cup {p \in DOMAIN f : f[p].t = "dir" /\ \A k \in 1..Len(p) : p[k] \notin IGNORE}

\* the directory listings: a function from the directories to the
\* sequence of their entries, in every order
RECURSIVE ListingsOver(_, _)
ListingsOver(f, dirs) ==
    IF dirs = {} THEN {<<>>}
    ELSE LET d == CHOOSE d \in dirs : TRUE
         IN  {(d :> s) @@ l : s \in Perms(ReadDir(f, d)), l \in ListingsOver(f, dirs \ {d})}
Listings(f) == ListingsOver(f, KeptDirs(f))

\* the readings of the clock for the author and the committer lines, with
\* the offset of the local time zone
Clock1 == [secs |-> 1700000000, tz |-> <<43, 48, 48, 48, 48>>]
Clock2 == [secs |-> 1700000060, tz |-> <<45, 48, 53, 51, 48>>]
Clock3 == [secs |-> 1700000061, tz |-> <<45, 48, 53, 51, 48>>]
ClockPairs == {<<Clock2, Clock3>>}
\* "x" and "m\n\nn"
Messages == {<<120>>, <<109, 10, 10, 110>>}

\* the entry of a pack for an object that is not a delta: the type and the
\* low four bits of the size, the rest of the size, the deflated data
PackEntry(type, size, data) ==
    (IF size < 16 THEN <<type * 16 + size>> ELSE <<128 + type * 16 + (size % 16), size \div 16>>)
    \o ZlibEncode(data)
\* the entry of a delta against the object named by base
RefDeltaEntry(base, data) == <<OBJ_TYPE_REF_DELTA * 16 + Len(data)>> \o base \o ZlibEncode(data)

S_PACK == <<80, 65, 67, 75>>  \* "PACK"
\* a pack: the signature, version 2, the number of entries, the entries and
\* the checksum of all that
MkPack(n, entries) ==
    LET body == S_PACK \o <<0, 0, 0, 2>> \o <<0, 0, 0, n>> \o entries
    IN  body \o Sha1(body)

Response(status, content_type, body) ==
    [status |-> status, content_type |-> content_type, body |-> body]

Hash40_1 == [i \in 1..SHA_DISPLAY_LEN |-> 49]  \* "1111..."
Hash40_2 == [i \in 1..SHA_DISPLAY_LEN |-> 50]  \* "2222..."
S_HEAD_caps == <<32, 72, 69, 65, 68, 0, 97, 103, 101, 110, 116, 10>>  \* " HEAD\0agent\n"
S_ref_main == <<32, 114, 101, 102, 115, 47, 104, 101, 97, 100, 115, 47, 109, 97, 105, 110, 10>>  \* " refs/heads/main\n"
\* the advertisement of a remote with a head and a branch
Advertisement ==
    <<48, 48, 49, 101>> \o S_service_hdr \o S_service \o <<LF>> \o S_flush
    \o <<48, 48, 51, 56>> \o Hash40_1 \o S_HEAD_caps
    \o <<48, 48, 51, 100>> \o Hash40_2 \o S_ref_main
    \o S_flush
Gets ==
    {Response(200, CT_ADVERTISEMENT, Advertisement),
     Response(404, CT_ADVERTISEMENT, <<>>)}

\* an entry whose zlib stream ends with a wrong Adler-32 checksum
CorruptEntry(type, size, data) ==
    <<type * 16 + size>> \o [ZlibEncode(data) EXCEPT ![Len(ZlibEncode(data))] = (@ + 1) % 256]
\* the pack with a blob and then a blob whose stream does not inflate
CorruptPost ==
    Response(200, "", S_NAK \o MkPack(2, PackEntry(3, 1, <<120>>) \o CorruptEntry(3, 1, <<121>>)))

\* the packs of the remote: an object, a delta and an object; an object
\* whose declared size is wrong after a good one; an object whose stream
\* is corrupt after a good one
Posts ==
    {Response(200, "", S_NAK \o MkPack(3, PackEntry(4, 12, B_hello)
                                          \o RefDeltaEntry(Sha1(<<120>>), <<1, 1, 0>>)
                                          \o PackEntry(2, 0, <<>>))),
     Response(200, "", S_NAK \o MkPack(2, PackEntry(3, 1, <<120>>) \o PackEntry(3, 2, <<121>>))),
     CorruptPost}

\* an entry of a pack as the remote composes it: the type, the declared
\* size, the number of zero continuation bytes that follow the bytes of the
\* size, the bytes between the size and the stream (the offset or the base
\* of a delta), the data, and whether the stream is left intact
Entry(type, size, mid, data) ==
    [type |-> type, size |-> size, pad |-> 0, mid |-> mid, data |-> data, good |-> TRUE]
\* the type and the size of an entry: four bits of the size with the type,
\* then seven bits at a time, every byte but the last with its top bit set
SizePrefix(type, size, pad) ==
    LET tail == (IF size < 16 THEN <<>> ELSE <<size \div 16>>) \o [i \in 1..pad |-> 0]
    IN  <<type * 16 + (size % 16) + (IF tail = <<>> THEN 0 ELSE 128)>>
        \o [i \in 1..Len(tail) |-> tail[i] + (IF i < Len(tail) THEN 128 ELSE 0)]
\* a zlib stream whose Adler-32 checksum is wrong
CorruptStream(data) == [ZlibEncode(data) EXCEPT ![Len(ZlibEncode(data))] = (@ + 1) % 256]
EncodeEntry(e) ==
    SizePrefix(e.type, e.size, e.pad) \o e.mid
    \o (IF e.good THEN ZlibEncode(e.data) ELSE CorruptStream(e.data))
RECURSIVE EncodeEntrySeq(_)
EncodeEntrySeq(es) == IF es = <<>> THEN <<>> ELSE EncodeEntry(es[1]) \o EncodeEntrySeq(Drop(es, 1))

\* the answer to the POST with a pack that declares n entries and holds
\* the entries es
NoPack == [described |-> FALSE, n |-> 0, entries |-> <<>>]
PackInput(n, es) ==
    [pack |-> [described |-> TRUE, n |-> n, entries |-> es],
     post |-> Response(200, "", S_NAK \o MkPack(n, EncodeEntrySeq(es)))]
\* the answer to the POST with the bytes given after "0008NAK\n"
RawInput(bytes) == [pack |-> NoPack, post |-> Response(200, "", S_NAK \o bytes)]

E_blob_x == Entry(3, 1, <<>>, <<120>>)
E_tree_0 == Entry(2, 0, <<>>, <<>>)
E_tag_hello == Entry(4, 12, <<>>, B_hello)
E_commit_long == Entry(1, 60, <<>>, B_long)
E_ref_delta == Entry(OBJ_TYPE_REF_DELTA, 3, Sha1(<<120>>), <<1, 1, 0>>)
E_ofs_delta == Entry(OBJ_TYPE_OFFSET_DELTA, 3, <<11>>, <<1, 1, 0>>)
\* an offset larger than the index of the entry
E_ofs_far == Entry(OBJ_TYPE_OFFSET_DELTA, 3, <<127>>, <<1, 1, 0>>)
\* entries that declare a size their data does not have
E_blob_short == Entry(3, 2, <<>>, <<121>>)
E_ref_short == Entry(OBJ_TYPE_REF_DELTA, 2, Sha1(<<120>>), <<1, 1, 0>>)
\* an entry whose stream does not inflate
E_blob_corrupt == [Entry(3, 1, <<>>, <<121>>) EXCEPT !.good = FALSE]
\* an entry whose stream does not inflate and holds less than it declares
E_blob_corrupt_short == [Entry(3, 2, <<>>, <<121>>) EXCEPT !.good = FALSE]
\* entries of the types 0 and 5, which no object has
E_type_5 == Entry(5, 1, <<>>, <<120>>)
E_type_0 == Entry(0, 1, <<>>, <<120>>)
\* a size written in eleven bytes
E_blob_padded == [Entry(3, 1, <<>>, <<122>>) EXCEPT !.pad = 10]
\* a size written in three bytes
E_tag_padded == [Entry(4, 12, <<>>, B_hello) EXCEPT !.pad = 2]

\* the packs of the remote, with as many entries as they declare, with
\* more, and with fewer
PackInputs ==
    {PackInput(0, <<>>),
     PackInput(1, <<E_blob_x>>),
     PackInput(3, <<E_tag_hello, E_ref_delta, E_tree_0>>),
     PackInput(3, <<E_blob_x, E_ofs_delta, E_commit_long>>),
     PackInput(2, <<E_tree_0, E_tag_padded>>),
     PackInput(2, <<E_blob_x, E_blob_short>>),
     PackInput(3, <<E_tree_0, E_blob_short, E_blob_x>>),
     PackInput(2, <<E_ref_short, E_blob_x>>),
     PackInput(2, <<E_blob_x, E_blob_corrupt>>),
     PackInput(3, <<E_blob_corrupt, E_blob_x, E_tree_0>>),
     PackInput(2, <<E_blob_x, E_blob_corrupt_short>>),
     PackInput(2, <<E_ofs_far, E_blob_x>>),
     PackInput(3, <<E_blob_x, E_type_5, E_tree_0>>),
     PackInput(1, <<E_type_0>>),
     PackInput(2, <<E_blob_padded, E_tree_0>>),
     PackInput(1, <<E_blob_x, E_tree_0>>),
     PackInput(2, <<E_blob_x>>),
     PackInput(0, <<E_tag_hello>>)}
\* byte strings that are no packs: shorter than a header; a size, an
\* offset and a base that run past the end
RawInputs ==
    {RawInput(<<>>),
     RawInput(S_PACK \o <<0, 0, 0, 2, 0, 0, 0>>),
     RawInput(S_PACK \o <<0, 0, 0, 2, 0, 0, 0, 1>> \o [i \in 1..21 |-> 128]),
     RawInput(S_PACK \o <<0, 0, 0, 2, 0, 0, 0, 1, 96>> \o [i \in 1..20 |-> 128]),
     RawInput(S_PACK \o <<0, 0, 0, 2, 0, 0, 0, 1, 240, 0>> \o [i \in 1..19 |-> 7])}

\* the answers to the GET of info/refs: the advertisement with the status
\* 200, 304 and 404, with another content-type, with a parameter after the
\* content-type, without a content-type, and bodies that are no
\* advertisement
CT_PLAIN == "text/plain"
CT_CHARSET == "application/x-git-upload-pack-advertisement; charset=utf-8"
FetchGets ==
    {Response(200, CT_ADVERTISEMENT, Advertisement),
     Response(304, CT_ADVERTISEMENT, Advertisement),
     Response(404, CT_ADVERTISEMENT, Advertisement),
     Response(200, CT_PLAIN, Advertisement),
     Response(200, CT_CHARSET, Advertisement),
     Response(200, "", Advertisement),
     Response(200, CT_ADVERTISEMENT, Take(Advertisement, Len(Advertisement) - Len(S_flush))),
     Response(304, CT_ADVERTISEMENT, <<>>)}
\* the answers to the POST: a pack of a blob after "0008NAK\n" with the
\* status 200, 204, 404 and 500, and with the status 200 after "0008ACK\n"
\* and after nothing
FetchPosts ==
    {Response(200, "", S_NAK \o MkPack(1, PackEntry(3, 1, <<120>>))),
     Response(204, "", S_NAK \o MkPack(1, PackEntry(3, 1, <<120>>))),
     Response(404, "", S_NAK \o MkPack(1, PackEntry(3, 1, <<120>>))),
     Response(500, "", S_NAK \o MkPack(1, PackEntry(3, 1, <<120>>))),
     Response(200, "", <<48, 48, 48, 56, 65, 67, 75, 10>> \o MkPack(1, PackEntry(3, 1, <<120>>))),
     Response(200, "", MkPack(1, PackEntry(3, 1, <<120>>)))}

\* the arguments ls-tree is tried with
LsInput(recurse, trees_only, name_only, abbrev) ==
    [recurse |-> recurse, trees_only |-> trees_only, name_only |-> name_only, abbrev |-> abbrev]
LsInputs ==
    {LsInput(FALSE, FALSE, FALSE, 8), LsInput(TRUE, FALSE, FALSE, 20),
     LsInput(FALSE, TRUE, FALSE, 1), LsInput(TRUE, FALSE, TRUE, 8),
     LsInput(FALSE, FALSE, FALSE, 21), LsInput(FALSE, FALSE, FALSE, 0)}

\* ------------------------------------------------------------------------
\* State
\* ------------------------------------------------------------------------
VARIABLES
    fs,     \* the file system under the working directory
    last,   \* the last command: its name, arguments, status and output
    procs   \* the processes that insert one object step by step

vars == <<fs, last, procs>>

NoTree == [some |-> FALSE, value |-> <<>>]
NoArgs == [write |-> FALSE, kind |-> "", body |-> <<>>, path |-> <<>>, info |-> "", q |-> <<>>,
           recurse |-> FALSE, trees_only |-> FALSE, name_only |-> FALSE, abbrev |-> 0,
           parents |-> <<>>, message |-> <<>>, tree_hash |-> NoTree,
           now1 |-> Clock1, now2 |-> Clock1,
           get |-> Response(0, "", <<>>), post |-> Response(0, "", <<>>),
           oneline |-> FALSE, hash |-> NoTree, action |-> "", key |-> <<>>, value |-> <<>>,
           pack |-> NoPack]
Cmd(op, args, r) == [op |-> op, args |-> args, status |-> r.status, out |-> r.out]
NoCmd == [op |-> "none", args |-> NoArgs, status |-> "ok", out |-> <<>>]
\* no process inserts step by step
NoProcs == [kind |-> "", hash |-> <<>>, data |-> <<>>, proc |-> <<>>]

\* the hash the last command printed in hex, if it printed one
PrintedHash(l) ==
    IF Len(l.out) = SHA_DISPLAY_LEN + 1 /\ l.op \in {"hash_object", "write_tree", "commit_tree"}
    THEN {Take(l.out, SHA_DISPLAY_LEN)} ELSE {}

\* the queries the read commands are tried with: the hash the last command
\* printed, in full and cut to four and to three characters
Queries(l) == UNION {{h, Take(h, 4), Take(h, 3)} : h \in PrintedHash(l)}

NumObjects(f) == Cardinality(ObjectFiles(f))
\* the stored objects that are commits
NumCommits(f) ==
    Cardinality({p \in ObjectFiles(f) : StartsWith(ZlibDecode(f[p].data, 1).data, S_commit)})

Init ==
    /\ fs = WorkTree
    /\ last = NoCmd
    /\ procs = NoProcs

\* init .
DoInit ==
    \E r \in {init(fs)} :
        /\ fs' = r.fs
        /\ UNCHANGED procs
        /\ last' = Cmd("init", NoArgs, r)

\* hash-object [-w] -t kind --stdin
HashObject ==
    \E write \in BOOLEAN, kind \in Kinds, body \in Bodies :
        \E r \in {hash_object(fs, write, kind, body, TRUE)} :
            /\ write => NumObjects(fs) < MaxObjects
            /\ fs' = r.fs
            /\ UNCHANGED procs
            /\ last' = Cmd("hash_object", [NoArgs EXCEPT !.write = write, !.kind = kind, !.body = body], r)

\* hash-object [-w] path: the contents are read from the file
HashObjectPath ==
    \E write \in BOOLEAN, path \in {<<N_a>>, <<DOT_GIT>>, <<N_missing>>} :
        \E rd \in {ReadPath(fs, path)} :
        \E r \in {IF rd.ok THEN hash_object(fs, write, "blob", rd.data, TRUE) ELSE Err(fs, <<>>)} :
            /\ write => NumObjects(fs) < MaxObjects
            /\ fs' = r.fs
            /\ UNCHANGED procs
            /\ last' = Cmd("hash_object", [NoArgs EXCEPT !.write = write, !.kind = "blob",
                                              !.body = rd.data, !.path = path], r)

\* cat-file (-t | -s | -p) q
CatFile ==
    \E info \in {"Type", "Size", "Print"}, q \in Queries(last) :
        \E r \in cat_file(fs, info, q) :
            /\ fs' = r.fs
            /\ UNCHANGED procs
            /\ last' = Cmd("cat_file", [NoArgs EXCEPT !.info = info, !.q = q], r)

\* find_object(q), as the commands that resolve a hash call it
FindObject ==
    \E q \in Queries(last) :
        \E r \in find_object(fs, q) :
            /\ fs' = fs
            /\ UNCHANGED procs
            /\ last' = [op |-> "find_object", args |-> [NoArgs EXCEPT !.q = q],
                        status |-> IF r.ok THEN "ok" ELSE "err", out |-> r.path]

\* write-tree
WriteTree ==
    \E lst \in Listings(fs) :
        \E r \in {write_tree(fs, lst)} :
            /\ fs' = r.fs
            /\ UNCHANGED procs
            /\ last' = Cmd("write_tree", NoArgs, r)

\* ls-tree [-r] [-d] [--name-only] [--abbrev=n] q
LsTree ==
    \E in \in LsInputs, q \in Queries(last) :
        \E r \in ls_tree(fs, in.recurse, in.trees_only, in.name_only, in.abbrev, q) :
            /\ fs' = r.fs
            /\ UNCHANGED procs
            /\ last' = Cmd("ls_tree", [NoArgs EXCEPT !.recurse = in.recurse, !.trees_only = in.trees_only,
                                          !.name_only = in.name_only, !.abbrev = in.abbrev, !.q = q], r)

\* the hash in the ref file of the head, if there is one
HeadHash(f) == IF get_head(f).some THEN {get_head(f).value} ELSE {}
\* the parents commit-tree is tried with: none, the hash just printed, and
\* the head before an abbreviation of the hash just printed
ParentChoices(f, l) ==
    {<<>>} \cup {<<h>> : h \in PrintedHash(l)}
    \cup {<<h2, Take(h1, 4)>> : h1 \in PrintedHash(l), h2 \in HeadHash(f) \ PrintedHash(l)}
TreeChoices(l) == {NoTree} \cup {[some |-> TRUE, value |-> Take(h, 6)] : h \in PrintedHash(l)}

\* commit-tree [-p parent]* -m message [tree]
CommitTree ==
    /\ NumCommits(fs) < MaxCommits
    /\ \E parents \in ParentChoices(fs, last), message \in Messages, tree_hash \in TreeChoices(last),
          now \in ClockPairs, lst \in Listings(fs) :
        \E r \in commit_tree(fs, parents, message, tree_hash, lst, now[1], now[2]) :
            /\ fs' = r.fs
            /\ UNCHANGED procs
            /\ last' = Cmd("commit_tree", [NoArgs EXCEPT !.parents = parents, !.message = message,
                                              !.tree_hash = tree_hash, !.now1 = now[1], !.now2 = now[2]], r)

\* commit -m message
Commit ==
    /\ NumCommits(fs) < MaxCommits
    /\ \E message \in Messages, now \in ClockPairs, lst \in Listings(fs) :
        \E r \in commit(fs, message, lst, now[1], now[2]) :
            /\ fs' = r.fs
            /\ UNCHANGED procs
            /\ last' = Cmd("commit", [NoArgs EXCEPT !.message = message, !.now1 = now[1], !.now2 = now[2]], r)

\* clone remote .
Clone ==
    \E get \in Gets, post \in Posts :
        \E r \in clone(fs, get, post) :
            /\ fs' = r.fs
            /\ UNCHANGED procs
            /\ last' = Cmd("clone", [NoArgs EXCEPT !.get = get, !.post = post], r)

\* the repository with every command that writes to it
Next ==
    \/ DoInit
    \/ HashObjectPath
    \/ WriteTree
    \/ CommitTree
    \/ Commit
    \/ Clone

Spec == Init /\ [][Next]_vars

\* the object store and the commands that read it
NextStore ==
    \/ DoInit
    \/ HashObject
    \/ CatFile
    \/ FindObject

SpecStore == Init /\ [][NextStore]_vars

\* the tree builder over the working directories, and ls-tree
InitTree ==
    /\ fs \in WorkTrees
    /\ last = NoCmd
    /\ procs = NoProcs

NextTree ==
    \/ DoInit
    \/ WriteTree
    \/ LsTree

SpecTree == InitTree /\ [][NextTree]_vars

\* the commit writer
NextCommit ==
    \/ DoInit
    \/ WriteTree
    \/ CommitTree
    \/ Commit
    \/ CatFile

SpecCommit == Init /\ [][NextCommit]_vars

\* the keys and the values config is tried with: user.name, x.y and a key
\* without a section; "v", a value that ends with a space and the empty
\* value
ConfigKeys == {S_user \o <<46>> \o S_name, <<120, 46, 121>>, S_name}
ConfigValues == {<<118>>, <<119, SP>>, <<>>}

\* config --get key | config --list | config key value
Config ==
    \E action \in {"Get", "Set", "List"}, key \in ConfigKeys, value \in ConfigValues :
        \E r \in {config(fs, action, key, value)} :
            /\ fs' = r.fs
            /\ UNCHANGED procs
            /\ last' = Cmd("config", [NoArgs EXCEPT !.action = action, !.key = key, !.value = value], r)

\* the config file under the config command
NextConfig ==
    \/ DoInit
    \/ Config

SpecConfig == Init /\ [][NextConfig]_vars

\* the hashes of the stored objects, and of those that are commits
ObjectHashes(f) == {p[3] \o p[4] : p \in ObjectFiles(f)}
CommitHashes(f) ==
    {p[3] \o p[4] : p \in {q \in ObjectFiles(f) : StartsWith(ZlibDecode(f[q].data, 1).data, S_commit)}}

\* the commits log is started from: the head, a stored object by its hash,
\* and a commit by the first four and the first three characters of its
\* hash
LogStarts(f) ==
    {NoTree} \cup {[some |-> TRUE, value |-> h] : h \in ObjectHashes(f)}
    \cup UNION {{[some |-> TRUE, value |-> Take(h, 4)], [some |-> TRUE, value |-> Take(h, 3)]}
                : h \in CommitHashes(f)}

\* log [--oneline] [hash]
Log ==
    \E oneline \in BOOLEAN, hash \in LogStarts(fs) :
        \E r \in log(fs, oneline, hash) :
            /\ fs' = r.fs
            /\ UNCHANGED procs
            /\ last' = Cmd("log", [NoArgs EXCEPT !.oneline = oneline, !.hash = hash], r)

\* the history commit builds on a new repository, and log
NextChain ==
    \/ DoInit
    \/ Commit
    \/ Log

SpecChain == Init /\ [][NextChain]_vars

\* the repositories with three commits R, A and M written by commit-tree:
\* A has the parent R, M has the parents given by shape, each commit has a
\* clock of its own, and the head is M
DagClocks == {Clock1, Clock2}
DagShapes == {"AR", "RA", "A", "RR"}
Committed(f, parents, now) ==
    {r \in UNION {commit_tree(f, parents, <<120>>, NoTree, lst, now, now) : lst \in Listings(f)}
       : r.status = "ok"}
DagParents(shape, hR, hA) ==
    CASE shape = "AR" -> <<hA, hR>>
      [] shape = "RA" -> <<hR, hA>>
      [] shape = "A" -> <<hA>>
      [] shape = "RR" -> <<hR, hR>>
DagHead(rM) == update_head(rM.fs, Trim(rM.out)).fs
DagRepos ==
    UNION {UNION {UNION {{DagHead(rM) : rM \in Committed(rA.fs, DagParents(shape, Trim(rR.out), Trim(rA.out)), cM)}
                         : rA \in Committed(rR.fs, <<Trim(rR.out)>>, cA)}
                  : rR \in Committed(init(WorkTree).fs, <<>>, cR)}
           : cR \in DagClocks, cA \in DagClocks, cM \in DagClocks, shape \in DagShapes}

InitLog ==
    /\ fs \in DagRepos
    /\ last = NoCmd
    /\ procs = NoProcs

\* log over the histories with merges
NextLog ==
    \/ WriteTree
    \/ Log

SpecLog == InitLog /\ [][NextLog]_vars

\* update_head(hash), as commit calls it
UpdateHead ==
    \E h \in PrintedHash(last) \cup {Hash40_2} :
        \E r \in {update_head(fs, h)} :
            /\ fs' = r.fs
            /\ UNCHANGED procs
            /\ last' = Cmd("update_head", [NoArgs EXCEPT !.q = h],
                           IF r.ok THEN Ok(r.fs, <<>>) ELSE Err(r.fs, <<>>))

\* the repositories whose HEAD file does not name a ref: a repository made
\* by init, and one with a commit, with a HEAD file that holds a hash, the
\* hash of the commit, or nothing
DetachedHeads(f) == {Hash40_1 \o <<LF>>, <<>>} \cup {h \o <<LF>> : h \in CommitHashes(f)}
Detach(f) == {[f EXCEPT ![<<DOT_GIT, HEAD>>].data = d] : d \in DetachedHeads(f)}
DetachedRepos ==
    UNION {Detach(f) : f \in {init(WorkTree).fs}
                         \cup {r.fs : r \in {c \in UNION {commit(init(WorkTree).fs, <<120>>, lst, Clock2, Clock3)
                                                          : lst \in Listings(WorkTree)}
                                             : c.status = "ok"}}}

InitDetached ==
    /\ fs \in DetachedRepos
    /\ last = NoCmd
    /\ procs = NoProcs

\* the commands that write the head, on a detached head
NextDetached ==
    \/ DoInit
    \/ WriteTree
    \/ CommitTree
    \/ Commit
    \/ UpdateHead

SpecDetached == InitDetached /\ [][NextDetached]_vars

\* the byte strings the object parsers are tried with: a tag or something
\* close to one, a separator, digits or something close, a terminator and
\* a body
ParseTags == {S_blob, S_tree, S_commit, S_tag, <<98, 108, 111>>, <<>>}
ParseSeps == {<<SP>>, <<TAB>>, <<>>}
ParseDigits == {<<48>>, <<50>>, <<48, 49>>, <<49, 50>>, <<>>, <<49, 97>>}
ParseEnds == {<<NUL>>, <<>>, <<SP>>}
ParseBodies == {<<>>, <<120>>, <<120, NUL>>, B_hello}
ParseInputs ==
    {t \o sep \o d \o e \o b :
        t \in ParseTags, sep \in ParseSeps, d \in ParseDigits, e \in ParseEnds, b \in ParseBodies}

\* parse_contents of cat_file.rs on an inflated byte string
ParseContents ==
    \E object \in ParseInputs :
        \E r \in {parse_contents(object)} :
            /\ fs' = fs
            /\ UNCHANGED procs
            /\ last' = Cmd("parse_contents", [NoArgs EXCEPT !.body = object],
                           IF r.ok THEN Ok(fs, r.contents) ELSE Err(fs, r.contents))

\* parse_contents of parsing.rs on an inflated byte string
ParseObject ==
    \E object \in ParseInputs :
        \E r \in {parse_object(object)} :
            /\ fs' = fs
            /\ UNCHANGED procs
            /\ last' = Cmd("parse_object", [NoArgs EXCEPT !.body = object, !.q = r.type],
                           IF r.ok THEN Ok(fs, r.contents) ELSE Err(fs, r.contents))

\* clone from a remote that answers the POST with one of the packs
ClonePack ==
    \E get \in {Response(200, CT_ADVERTISEMENT, Advertisement)}, p \in PackInputs \cup RawInputs :
        \E r \in clone(fs, get, p.post) :
            /\ fs' = r.fs
            /\ UNCHANGED procs
            /\ last' = Cmd("clone", [NoArgs EXCEPT !.get = get, !.post = p.post, !.pack = p.pack], r)

\* init and the clones of the packs
NextPack ==
    \/ DoInit
    \/ ClonePack

SpecPack == Init /\ [][NextPack]_vars

\* the type and size bytes the decoder is tried with: a first byte with a
\* type and four bits of the size, and groups of seven bits, every byte
\* but the last with its top bit set
PrefixOf(type, low, groups) ==
    <<type * 16 + low + (IF groups = <<>> THEN 0 ELSE 128)>>
    \o [i \in 1..Len(groups) |-> groups[i] + (IF i < Len(groups) THEN 128 ELSE 0)]
PrefixGroups ==
    {<<>>, <<1>>, <<127>>, <<0>>, <<85, 3>>, <<0, 127>>, <<127, 127, 127>>, <<1, 0, 0, 1>>,
     [i \in 1..10 |-> 0]}
Prefixes == {PrefixOf(type, low, groups) : type \in 0..7, low \in {0, 9, 15}, groups \in PrefixGroups}

\* the decoding of the type and the size of the entry at the cursor, in a
\* buffer with the bytes of an entry after them.  out is the type, the
\* size and the cursor after them.
EntryHeader ==
    \E prefix \in Prefixes, index \in {0, PACK_START} :
        \E h \in {entry_header([i \in 1..index |-> 255] \o prefix \o ZlibEncode(<<120>>), index)} :
            \E status \in (IF h.panic THEN {"panic"} ELSE IF h.wrapped THEN {"panic", "ok"} ELSE {"ok"}) :
                /\ fs' = fs
                /\ UNCHANGED procs
                /\ last' = [op |-> "entry_header",
                            args |-> [NoArgs EXCEPT !.body = prefix, !.abbrev = index],
                            status |-> status,
                            out |-> IF status = "ok" THEN <<h.type, h.value, h.index>> ELSE <<>>]

\* the decoder of the type and the size of an entry
NextPrefix ==
    \/ EntryHeader

SpecPrefix == Init /\ [][NextPrefix]_vars

\* clone from a remote with one of the answers to the GET and to the POST
CloneFetch ==
    \E get \in FetchGets, post \in FetchPosts :
        \E r \in clone(fs, get, post) :
            /\ fs' = r.fs
            /\ UNCHANGED procs
            /\ last' = Cmd("clone", [NoArgs EXCEPT !.get = get, !.post = post], r)

\* init and the clones of the answers
NextFetch ==
    \/ DoInit
    \/ CloneFetch

SpecFetch == Init /\ [][NextFetch]_vars

\* the byte strings the loop over a pack is run on, pass by pass: the
\* packs of the remote, the byte strings that are no packs, and the packs
\* of two entries in every combination
LoopEntries ==
    {E_blob_x, E_tree_0, E_ref_delta, E_ofs_delta, E_blob_short, E_blob_corrupt, E_type_5}
IngestPacks ==
    {Drop(p.post.body, Len(S_NAK)) : p \in PackInputs \cup RawInputs}
    \cup {MkPack(2, EncodeEntrySeq(<<a, b>>)) : a, b \in LoopEntries}

\* the loop of clone over a pack, after init: the cursor is at 12 and no
\* pass has been made
InitIngest ==
    /\ fs = init(WorkTree).fs
    /\ last = NoCmd
    /\ procs \in {[kind |-> "ingest", hash |-> <<>>, data |-> pack,
                    proc |-> [index |-> PACK_START, status |-> "run", passes |-> 0]]
                   : pack \in IngestPacks}

\* the test of the loop and one pass through its body
IngestEntry ==
    /\ procs.kind = "ingest"
    /\ procs.proc.status = "run"
    /\ \E e \in ingest_step(fs, procs.data, procs.proc.index) :
          /\ fs' = e.fs
          /\ procs' = [procs EXCEPT !.proc = [index |-> e.index, status |-> e.status,
                                              passes |-> procs.proc.passes + 1]]
    /\ UNCHANGED last

\* the loop over a pack, pass by pass
NextIngest ==
    \/ IngestEntry

SpecIngest == InitIngest /\ [][NextIngest]_vars

\* the object parsers
NextParse ==
    \/ ParseContents
    \/ ParseObject

SpecParse == Init /\ [][NextParse]_vars

\* ------------------------------------------------------------------------
\* hash_object with write = true, step by step, in two processes
\* ------------------------------------------------------------------------
\* Each process runs create_object and io::copy on the same object: its
\* steps are fs::create_dir, fs::remove_file, File::create and the writes
\* of io::copy, here two.  The file of a process is the one it opened: when
\* another process removes the path, the writes of the process go to a
\* file that has no name any more (linked is FALSE); when File::create
\* finds a file at the path it opens and truncates that file.
Procs == {1, 2}
ProcStart == [pc |-> "create_dir", linked |-> FALSE, offset |-> 0]

\* the bytes one write of io::copy takes: half of the stream, rounded up
ChunkLen(data) == (Len(data) + 1) \div 2

\* the bytes of the stream after the first offset bytes that one write takes
NextChunk(data, offset) ==
    SubSeq(data, offset + 1,
           IF offset + ChunkLen(data) > Len(data) THEN Len(data) ELSE offset + ChunkLen(data))

\* write(2) of chunk at offset into a file with the bytes old
WriteAt(old, offset, chunk) ==
    LET padded == IF Len(old) < offset THEN old \o [k \in 1..(offset - Len(old)) |-> 0] ELSE old
    IN  Take(padded, offset) \o chunk \o Drop(padded, offset + Len(chunk))

\* fs::create_dir(&path), an error other than AlreadyExists ends the insert
create_dir_step(f, hash) ==
    LET d == CreateDir(f, ObjectDir(hash))
    IN  [ok |-> d.ok \/ d.kind = "AlreadyExists", fs |-> d.fs]

\* fs::remove_file(&path), an error other than NotFound ends the insert
remove_file_strict(f, hash) ==
    LET r == RemoveFile(f, ObjectPath(hash))
    IN  [ok |-> r.ok, removed |-> r.ok, fs |-> r.fs]

remove_file_step(f, hash) ==
    LET r == RemoveFile(f, ObjectPath(hash))
    IN  [ok |-> r.ok \/ r.kind = "NotFound", removed |-> r.ok, fs |-> r.fs]

\* File::create(path)
file_create_step(f, hash) ==
    LET c == WriteFile(f, ObjectPath(hash), <<>>)
    IN  [ok |-> c.ok, fs |-> c.fs]

\* the objects inserted: every kind, with the two bodies
InitInsert ==
    /\ fs = init(WorkTree).fs
    /\ last = NoCmd
    /\ \E kind \in Kinds, body \in Bodies :
          procs = [kind |-> kind, hash |-> Sha1(Header(kind, body) \o body),
                   data |-> ZlibEncode(Header(kind, body) \o body),
                   proc |-> [p \in Procs |-> ProcStart]]

StepCreateDir ==
    \E p \in Procs :
        \E r \in {create_dir_step(fs, procs.hash)} :
            /\ procs.proc[p].pc = "create_dir"
            /\ fs' = r.fs
            /\ procs' = [procs EXCEPT !.proc[p].pc = IF r.ok THEN "remove_file" ELSE "failed"]
            /\ UNCHANGED last

\* a file removed is no more the file at the path for the processes that
\* have it open
StepRemoveFile ==
    \E p \in Procs :
        \E r \in {remove_file_step(fs, procs.hash)} :
            /\ procs.proc[p].pc = "remove_file"
            /\ fs' = r.fs
            /\ procs' = [procs EXCEPT !.proc =
                            [q \in Procs |->
                                IF q = p THEN [@[q] EXCEPT !.pc = IF r.ok THEN "file_create" ELSE "failed"]
                                ELSE IF r.removed THEN [@[q] EXCEPT !.linked = FALSE]
                                ELSE @[q]]]
            /\ UNCHANGED last

StepFileCreate ==
    \E p \in Procs :
        \E r \in {file_create_step(fs, procs.hash)} :
            /\ procs.proc[p].pc = "file_create"
            /\ fs' = r.fs
            /\ procs' = [procs EXCEPT !.proc[p] =
                            IF r.ok THEN [pc |-> "write", linked |-> TRUE, offset |-> 0]
                            ELSE [@ EXCEPT !.pc = "failed"]]
            /\ UNCHANGED last

\* one write of io::copy: the next bytes of the stream, at the offset of
\* the file of the process
StepWrite ==
    \E p \in Procs :
        \E chunk \in {NextChunk(procs.data, procs.proc[p].offset)} :
            /\ procs.proc[p].pc = "write"
            /\ fs' = IF procs.proc[p].linked
                     THEN [fs EXCEPT ![ObjectPath(procs.hash)].data =
                               WriteAt(@, procs.proc[p].offset, chunk)]
                     ELSE fs
            /\ procs' = [procs EXCEPT !.proc[p].offset = @ + Len(chunk),
                                      !.proc[p].pc = IF procs.proc[p].offset + Len(chunk) >= Len(procs.data)
                                                     THEN "done" ELSE "write"]
            /\ UNCHANGED last

NextInsert ==
    \/ StepCreateDir
    \/ StepRemoveFile
    \/ StepFileCreate
    \/ StepWrite

SpecInsert == InitInsert /\ [][NextInsert]_vars

\* ------------------------------------------------------------------------
\* Properties of the object store
\* ------------------------------------------------------------------------
\* the path under which the object with the hex digest d is stored
StoredPath(d) == <<DOT_GIT, OBJECTS, Take(d, 2), Drop(d, 2)>>
\* the inflated bytes of the object file at path p
Inflated(f, p) == ZlibDecode(f[p].data, 1)

\* C1: in an initialised repository, after hash_object with write = true
\* of kind K and bytes B has returned the digest d, cat_file(Print, d)
\* succeeds and outputs exactly B, and the header of the stored object
\* names K.
C1_RoundTrip ==
    [][(/\ last.op = "hash_object" /\ last.args.write /\ last.status = "ok"
        /\ last'.op = "cat_file" /\ last'.args.info = "Print"
        /\ last'.args.q = Take(last.out, SHA_DISPLAY_LEN))
       => (/\ last'.status = "ok"
           /\ last'.out = last.args.body
           /\ StoredPath(last'.args.q) \in DOMAIN fs'
           /\ StartsWith(Inflated(fs', StoredPath(last'.args.q)).data,
                         TypeName(last.args.kind) \o <<SP>>))]_vars

\* a commit of sixty bytes was stored and printed back by its full digest
C1_Witness ==
    /\ last.op = "cat_file" /\ last.args.info = "Print" /\ last.status = "ok"
    /\ Len(last.args.q) = SHA_DISPLAY_LEN
    /\ last.out = B_long
    /\ StartsWith(Inflated(fs, StoredPath(last.args.q)).data, S_commit)

\* the object file at p has a name of 38 characters in a directory of two,
\* inflates to "<kind> <size>\0<body>" with size the length of the body,
\* and the SHA-1 of the inflated bytes is the directory name followed by
\* the file name
WellStored(f, p) ==
    LET z == Inflated(f, p)
        t == parse_type(z.data)
        sz == parse_size(z.data, t.rest + 1)
    IN  /\ f[p].t = "file"
        /\ Len(p[3]) = 2 /\ Len(p[4]) = 38
        /\ z.ok
        /\ t.ok
        /\ t.rest <= Len(z.data) /\ z.data[t.rest] = SP
        /\ sz.ok
        /\ sz.rest <= Len(z.data) /\ z.data[sz.rest] = NUL
        /\ Len(z.data) - sz.rest = sz.size
        /\ Hex(Sha1(z.data)) = p[3] \o p[4]

\* C2: in every state reachable by init, hash-object -w, write-tree,
\* commit-tree, commit and clone, every file under .git/objects/xy/ has a
\* name of 38 characters and inflates to a valid frame whose SHA-1 is xy
\* followed by the file name.
C2_StoreInvariant == \A p \in ObjectFiles(fs) : WellStored(fs, p)

\* a commit was made in a repository that holds a tag taken from a pack
C2_Witness ==
    /\ last.op = "commit" /\ last.status = "ok"
    /\ \E p \in ObjectFiles(fs) : StartsWith(Inflated(fs, p).data, S_tag)
    /\ \E p \in ObjectFiles(fs) : StartsWith(Inflated(fs, p).data, S_tree)

\* C3: hash_object with write = true of an object that is already stored
\* succeeds and leaves every file as it was, and the same kind and bytes
\* give the same digest as the call before.
C3_Idempotent ==
    [][(last'.op = "hash_object" /\ last'.args.path = <<>>)
       => LET K == last'.args.kind
              B == last'.args.body
          IN  /\ (last'.args.write /\ ObjectPath(Sha1(Header(K, B) \o B)) \in DOMAIN fs)
                    => (last'.status = "ok" /\ fs' = fs)
              /\ (last.op = "hash_object" /\ last.status = "ok" /\ last.args.kind = K
                    /\ last.args.body = B)
                    => last'.out = last.out]_vars

\* a tree of sixty bytes is stored and the same insert can be made again
C3_Witness ==
    /\ last.op = "hash_object" /\ last.args.write /\ last.status = "ok"
    /\ last.args.kind = "tree" /\ last.args.body = B_long
    /\ ObjectPath(Sha1(Header("tree", B_long) \o B_long)) \in DOMAIN fs
    /\ NumObjects(fs) < MaxObjects

\* C4: for every object in the store, of kind K and with a body of N bytes,
\* cat_file(Type, d) succeeds and outputs the name of K, and
\* cat_file(Size, d) succeeds and outputs N in decimal.
C4_TypeAndSize ==
    (/\ last.op = "cat_file" /\ last.args.info \in {"Type", "Size"}
     /\ Len(last.args.q) = SHA_DISPLAY_LEN
     /\ StoredPath(last.args.q) \in ObjectFiles(fs))
    => LET data == Inflated(fs, StoredPath(last.args.q)).data
           t == parse_type(data)
           sz == parse_size(data, t.rest + 1)
       IN  /\ last.status = "ok"
           /\ last.args.info = "Type" => last.out = t.type
           /\ last.args.info = "Size" => last.out = Dec(sz.size)

\* C5: after init has succeeded, .git holds exactly HEAD, config, objects
\* and refs, and HEAD holds the bytes "ref: refs/heads/main\n".
C5_InitLayout ==
    (last.op = "init" /\ last.status = "ok")
    => /\ {Last(p) : p \in ReadDir(fs, <<DOT_GIT>>)}
            = {<<72, 69, 65, 68>>, <<99, 111, 110, 102, 105, 103>>,
               <<111, 98, 106, 101, 99, 116, 115>>, <<114, 101, 102, 115>>}
       /\ fs[<<DOT_GIT, <<72, 69, 65, 68>>>>].data
            = <<114, 101, 102, 58, 32, 114, 101, 102, 115, 47, 104, 101, 97, 100, 115, 47,
                109, 97, 105, 110, 10>>

\* init has succeeded in the working directory
C5_Witness ==
    /\ last.op = "init" /\ last.status = "ok"
    /\ IsDir(fs, <<DOT_GIT, OBJECTS>>)
    /\ <<N_a>> \in DOMAIN fs

\* objects/<q[0..2]> holds a file with a name of 38 characters that starts
\* with q[2..]
Matches(f, q) ==
    {p \in DOMAIN f : /\ Len(p) = 4
                      /\ Take(p, 3) = <<DOT_GIT, OBJECTS, Take(q, 2)>>
                      /\ f[p].t = "file"
                      /\ Len(p[4]) = 38
                      /\ StartsWith(p[4], Drop(q, 2))}

\* C6: find_object(q) succeeds if and only if q has at least 4 characters
\* and objects/<q[0..2]> holds a file with a name of 38 characters that
\* starts with q[2..]; the path it returns is such a file; and it changes
\* no file.
C6_FindObject ==
    [][last'.op = "find_object"
       => LET q == last'.args.q
          IN  /\ fs' = fs
              /\ (last'.status = "ok") <=> (Len(q) >= 4 /\ Matches(fs, q) # {})
              /\ (last'.status = "ok") => last'.out \in Matches(fs, q)
              /\ last'.status \in {"ok", "err"}]_vars

\* an abbreviation of four characters was resolved to a stored object
C6_Witness ==
    /\ last.op = "find_object" /\ last.status = "ok"
    /\ Len(last.args.q) = 4
    /\ last.out \in ObjectFiles(fs)

\* ------------------------------------------------------------------------
\* Properties of the tree builder and of ls-tree
\* ------------------------------------------------------------------------
\* the entries of the tree object stored under the hex digest d
TreeEntries(f, d) == tree_level_at(f, StoredPath(d), FALSE).entries

\* l comes before r: in the order of the bytes, except that of a name and
\* a proper prefix of it the longer one comes first
NameBefore(l, r) ==
    IF Len(l) < Len(r) /\ Take(r, Len(l)) = l THEN FALSE
    ELSE IF Len(r) < Len(l) /\ Take(l, Len(r)) = r THEN TRUE
    ELSE \E k \in 1..Len(l) : /\ k <= Len(r)
                              /\ l[k] < r[k]
                              /\ \A j \in 1..(k - 1) : l[j] = r[j]

\* the entries of directory dir that write_tree keeps
Kept(f, dir) == {p \in ReadDir(f, dir) : Last(p) \notin IGNORE}

\* the stored objects that are trees
StoredTrees(f) == {p \in ObjectFiles(f) : StartsWith(Inflated(f, p).data, S_tree)}

\* C7: whatever the order in which the directories are listed, write_tree
\* prints the same digest, and the entries of every tree it stores are in
\* the order of the bytes of their names, the longer of a name and its
\* proper prefix first; the root tree names exactly the kept entries.
C7_TreeOrder ==
    (last.op = "write_tree" /\ last.status = "ok")
    => /\ \A lst \in Listings(fs) : write_tree(fs, lst).out = last.out
       /\ \A p \in StoredTrees(fs) :
            LET es == TreeEntries(fs, p[3] \o p[4])
            IN  \A i, j \in 1..Len(es) : i < j => NameBefore(es[i].name, es[j].name)
       /\ LET es == TreeEntries(fs, Take(last.out, SHA_DISPLAY_LEN))
          IN  {es[i].name : i \in 1..Len(es)} = {Last(p) : p \in Kept(fs, <<>>)}

\* the tree of a directory with a name and a longer name that starts with
\* it was written, the directory having more than one possible listing
C7_Witness ==
    /\ last.op = "write_tree" /\ last.status = "ok"
    /\ {<<N_a>>, <<N_ab>>} \subseteq DOMAIN fs
    /\ Cardinality(Listings(fs)) > 1

\* the mode write_tree is to give to the entry at p
ModeOf(f, p) ==
    CASE f[p].t = "dir" -> 40000
      [] f[p].t = "link" -> 120000
      [] f[p].t = "file" /\ f[p].x -> 100755
      [] f[p].t = "file" /\ ~f[p].x -> 100644

\* the entry of the root tree for p has the mode of p and, for a
\* directory, the digest of the tree built for it
ModeHolds(f, es, p) ==
    \E i \in 1..Len(es) :
        /\ es[i].name = Last(p)
        /\ es[i].mode = ModeOf(f, p)
        /\ f[p].t = "dir" => \E lst \in Listings(f) : write_tree_at(f, p, lst).hash = es[i].hash

\* the blob of the entry of the root tree for the link at p has the target
\* of the link as its body
LinkBodyHolds(f, es, p) ==
    \E i \in 1..Len(es) :
        /\ es[i].name = Last(p)
        /\ StoredPath(Hex(es[i].hash)) \in ObjectFiles(f)
        /\ parse_contents(Inflated(f, StoredPath(Hex(es[i].hash))).data)
             = [ok |-> TRUE, contents |-> f[p].data]

\* the part of C8 about the modes: every kept entry has the mode of its
\* kind, and a directory the digest of its tree
C8_ModesOnly ==
    (last.op = "write_tree" /\ last.status = "ok")
    => LET es == TreeEntries(fs, Take(last.out, SHA_DISPLAY_LEN))
       IN  \A p \in Kept(fs, <<>>) : ModeHolds(fs, es, p)

\* C8: for every kept entry write_tree emits mode 40000 and the digest of
\* its tree for a directory, 100755 for an executable file, 100644 for
\* another file, and 120000 for a symbolic link, whose blob has the target
\* path of the link as its body.
C8_ModesAndLinkBody ==
    (last.op = "write_tree" /\ last.status = "ok")
    => LET es == TreeEntries(fs, Take(last.out, SHA_DISPLAY_LEN))
       IN  \A p \in Kept(fs, <<>>) :
             /\ ModeHolds(fs, es, p)
             /\ (fs[p].t = "link") => LinkBodyHolds(fs, es, p)

\* the field of the digest in a line that ls-tree printed
HashField(line) == SplitOn(line, TAB)[3]
NameField(line) == SplitOn(line, TAB)[4]

\* the entries of the tree under the hex digest d and of the trees below
RECURSIVE AllEntries(_, _, _)
AllEntries(f, d, depth) ==
    LET es == TreeEntries(f, d)
    IN  {es[i] : i \in 1..Len(es)}
        \cup (IF depth = 0 THEN {}
              ELSE UNION {AllEntries(f, Hex(es[i].hash), depth - 1)
                          : i \in {k \in 1..Len(es) : es[k].tree}})

\* the full hex digest that the query of the last command resolves to
Resolved(f, q) == {p[3] \o p[4] : p \in Matches(f, q)}

\* C9 as stated: ls_tree with abbrev = N prints the first N hexadecimal
\* characters of the digest of each entry.
C9_AbbrevChars ==
    (last.op = "ls_tree" /\ last.status = "ok" /\ ~last.args.name_only)
    => \A k \in 1..Len(Lines(last.out)) :
         Len(HashField(Lines(last.out)[k])) = last.args.abbrev

\* C9: ls_tree with abbrev = N <= 20 prints the first N bytes of the digest
\* of each entry, that is its first 2N hexadecimal characters, and it
\* fails for N > 20.
C9_AbbrevBytes ==
    /\ (last.op = "ls_tree" /\ last.args.abbrev > 20) => last.status = "err"
    /\ (last.op = "ls_tree" /\ last.status = "ok" /\ ~last.args.name_only)
       => \A k \in 1..Len(Lines(last.out)) :
            LET line == Lines(last.out)[k]
            IN  /\ Len(HashField(line)) = 2 * last.args.abbrev
                /\ \E d \in Resolved(fs, last.args.q) :
                     \E e \in AllEntries(fs, d, 2) :
                        /\ e.name = NameField(line)
                        /\ HashField(line) = Take(Hex(e.hash), 2 * last.args.abbrev)

\* ls-tree printed the entries of a tree with abbrev = 8
C9_Witness ==
    /\ last.op = "ls_tree" /\ last.status = "ok" /\ ~last.args.name_only
    /\ last.args.abbrev = 8
    /\ Len(Lines(last.out)) >= 2

\* ------------------------------------------------------------------------
\* Properties of the commit writer
\* ------------------------------------------------------------------------
\* the full hex digests of the stored objects
StoredDigests(f) == {p[3] \o p[4] : p \in ObjectFiles(f)}

\* one "parent <hex40>\n" line per digest of ps, in the order of ps
RECURSIVE ParentText(_)
ParentText(ps) ==
    IF ps = <<>> THEN <<>>
    ELSE <<112, 97, 114, 101, 110, 116, 32>> \o ps[1] \o <<LF>> \o ParentText(Drop(ps, 1))

\* "<name> <email> <secs> <+-hhmm>" for the reading now of the clock
Signature(f, now) ==
    LET name == get_config_value(f, S_user, S_name)
        email == get_config_value(f, S_user, S_email)
    IN  (IF name.some THEN name.value ELSE S_Anonymous)
        \o <<SP, 60>> \o (IF email.some THEN email.value ELSE S_NA) \o <<62, SP>>
        \o Dec(now.secs) \o <<SP>> \o now.tz

\* the lines of a commit with tree T and parents ps, up to the message
CommitLayout(f, T, ps, args) ==
    <<116, 114, 101, 101, 32>> \o T \o <<LF>>
    \o ParentText(ps)
    \o <<97, 117, 116, 104, 111, 114, 32>> \o Signature(f, args.now1) \o <<LF>>
    \o <<99, 111, 109, 109, 105, 116, 116, 101, 114, 32>> \o Signature(f, args.now2) \o <<LF>>
    \o <<LF>>
    \o args.message

\* the body of the stored object d is the layout for a tree and parents
\* that are full digests of stored objects and start with the arguments
\* given, followed by the bytes of tail
BodyIs(f, d, parents, tree_hash, args, tail) ==
    /\ StoredPath(d) \in ObjectFiles(f)
    /\ StartsWith(Inflated(f, StoredPath(d)).data, S_commit)
    /\ \E T \in StoredDigests(f) :
        \E ps \in [1..Len(parents) -> StoredDigests(f)] :
            /\ Len(T) = 40
            /\ tree_hash.some => StartsWith(T, tree_hash.value)
            /\ \A i \in 1..Len(parents) : Len(ps[i]) = 40 /\ StartsWith(ps[i], parents[i])
            /\ parse_contents(Inflated(f, StoredPath(d)).data)
                 = [ok |-> TRUE, contents |-> CommitLayout(f, T, ps, args) \o tail]

\* a step of commit-tree or of commit that wrote a commit
CommitTreeWrote == last'.op = "commit_tree" /\ last'.status = "ok"
CommitWrote == last'.op = "commit" /\ last'.status = "ok"

\* the body of the commit a step wrote is the layout followed by tail: for
\* commit-tree with the parents and the tree given, for commit with the
\* head as the parent and the tree of the working directory
WrittenBodyIs(tail) ==
    /\ CommitTreeWrote =>
         BodyIs(fs', Take(last'.out, SHA_DISPLAY_LEN), last'.args.parents, last'.args.tree_hash,
                last'.args, tail)
    /\ CommitWrote =>
         /\ get_head(fs').some
         /\ BodyIs(fs', get_head(fs').value,
                   IF get_head(fs).some THEN <<get_head(fs).value>> ELSE <<>>, NoTree,
                   last'.args, tail)

WrittenCommit ==
    parse_commit(parse_contents(Inflated(fs, StoredPath(Take(last.out, SHA_DISPLAY_LEN))).data).contents)

\* "name <email>" as commit_tree takes them from the config
ConfigAuthor(f) ==
    UnwrapOr(get_config_value(f, S_user, S_name), S_Anonymous) \o S_lt
    \o UnwrapOr(get_config_value(f, S_user, S_email), S_NA) \o <<62>>

\* the commit parses, and its parents (in full, for the abbreviations
\* given), author, timestamp and timezone are those commit-tree was given;
\* its message is the message given followed by tail
ParsedBack(c, tail) ==
    /\ c.ok
    /\ Len(c.parents) = Len(last.args.parents)
    /\ \A k \in 1..Len(c.parents) : StartsWith(c.parents[k], last.args.parents[k])
    /\ c.author = ConfigAuthor(fs)
    /\ c.timestamp = last.args.now1.secs
    /\ c.timezone = last.args.now1.tz
    /\ c.message = last.args.message \o tail

\* C11: parse_commit applied to the body written by commit_tree yields the
\* parent list, the author 'name <email>', the timestamp, the timezone and
\* the message that commit_tree was given, the message byte for byte.
C11_CommitRoundTrip ==
    (last.op = "commit_tree" /\ last.status = "ok") => ParsedBack(WrittenCommit, <<>>)

\* what holds instead: every field is read back, and the message read back
\* is the message given followed by the line feed that writeln! adds
C11_MessageWithNewline ==
    (last.op = "commit_tree" /\ last.status = "ok") => ParsedBack(WrittenCommit, <<LF>>)

\* the commit stored under the hash h, parsed
CommitOf(f, h) == parse_commit(parse_contents(Inflated(f, StoredPath(h)).data).contents)

\* the hash in the ref file of the head, trimmed
HeadCommit(f) == Trim(get_head(f).value)

\* the commits a log output shows, in its order: the hashes after "commit "
\* in the paragraphs, or the seven characters that start the lines of
\* --oneline
IsCommitLine(line) == StartsWith(line, S_commit_sp)
RECURSIVE CommitLines(_)
CommitLines(ls) ==
    IF ls = <<>> THEN <<>>
    ELSE (IF IsCommitLine(ls[1]) THEN <<Drop(ls[1], Len(S_commit_sp))>> ELSE <<>>)
         \o CommitLines(Drop(ls, 1))
Shown(l) ==
    IF l.args.oneline THEN [k \in 1..Len(Lines(l.out)) |-> Take(Lines(l.out)[k], 7)]
    ELSE CommitLines(Lines(l.out))
\* the name under which log shows the commit with the hash h
ShownAs(l, h) == IF l.args.oneline THEN Take(h, 7) ELSE h
Range(s) == {s[k] : k \in 1..Len(s)}

\* a successful commit has stored one new commit, the ref file of the head
\* holds its hash, and its parents are the head before, if there was one
CommitAdvances ==
    LET new == CommitHashes(fs') \ CommitHashes(fs)
    IN  /\ get_head(fs').some
        /\ new = {HeadCommit(fs')}
        /\ CommitOf(fs', HeadCommit(fs')).ok
        /\ CommitOf(fs', HeadCommit(fs')).parents
             = IF NumCommits(fs) = 0 THEN <<>> ELSE <<HeadCommit(fs)>>
        /\ NumCommits(fs) > 0 => (get_head(fs).some /\ HeadCommit(fs) \in CommitHashes(fs))

\* log from the head has shown every stored commit, and as many commits as
\* are stored
LogShowsAll(f, l) ==
    /\ Range(Shown(l)) = {ShownAs(l, h) : h \in CommitHashes(f)}
    /\ Len(Shown(l)) = NumCommits(f)

\* C12: after n >= 1 successful commits on a new repository the ref file
\* HEAD names holds the hash of the n-th commit, the first commit has no
\* parent, the k-th has exactly the (k-1)-th as its parent, and log from the
\* head shows all n commits.  Step by step: a successful commit stores one
\* new commit whose parent is the head before and makes it the head, and a
\* successful log from the head shows all the commits stored.
C12_CommitChain ==
    [][/\ (last'.op = "commit" /\ last'.status = "ok") => CommitAdvances
       /\ (last'.op = "log" /\ last'.status = "ok" /\ ~last'.args.hash.some) => LogShowsAll(fs', last')]_vars

\* log from the head after the second commit
C12_Witness ==
    /\ last.op = "log" /\ last.status = "ok" /\ ~last.args.hash.some
    /\ NumCommits(fs) = MaxCommits
    /\ Len(Shown(last)) = MaxCommits
    /\ CommitOf(fs, HeadCommit(fs)).parents # <<>>

\* the commits reachable from the commits of todo over the parent links
RECURSIVE ReachFrom(_, _, _)
ReachFrom(f, todo, seen) ==
    IF todo = {} THEN seen
    ELSE LET h == CHOOSE h \in todo : TRUE
         IN  ReachFrom(f, (todo \cup Range(CommitOf(f, h).parents)) \ (seen \cup {h}), seen \cup {h})

\* the commit log has started from
LogStart(f, l) ==
    IF l.args.hash.some
    THEN {h \in CommitHashes(f) : StartsWith(h, l.args.hash.value)}
    ELSE {HeadCommit(f)}

\* C13: for every commit graph, merges with shared ancestors and distinct
\* commits with equal timestamps included, and every start, the output of
\* log contains each commit reachable from the start exactly once and no
\* other commit.
C13_EachReachableOnce ==
    (last.op = "log" /\ last.status = "ok") =>
        /\ Range(Shown(last)) = {ShownAs(last, h) : h \in ReachFrom(fs, LogStart(fs, last), {})}
        /\ Len(Shown(last)) = Cardinality(ReachFrom(fs, LogStart(fs, last), {}))

\* what holds of every graph: the commits shown are the reachable ones
C13_ReachableShown ==
    (last.op = "log" /\ last.status = "ok") =>
        Range(Shown(last)) = {ShownAs(last, h) : h \in ReachFrom(fs, LogStart(fs, last), {})}

\* ------------------------------------------------------------------------
\* Properties of the config file
\* ------------------------------------------------------------------------
\* the pairs of the sections in the order of the file, each with the name
\* of its section
RECURSIVE FlatPairs(_)
FlatPairs(sections) ==
    IF sections = <<>> THEN <<>>
    ELSE [k \in 1..Len(sections[1].keys_values) |->
             [section |-> sections[1].name, key |-> sections[1].keys_values[k].key,
              value |-> sections[1].keys_values[k].value]]
         \o FlatPairs(Drop(sections, 1))
IsPair(p, section, key) == p.section = section /\ p.key = key
RECURSIVE Others(_, _, _)
Others(ps, section, key) ==
    IF ps = <<>> THEN <<>>
    ELSE (IF IsPair(ps[1], section, key) THEN <<>> ELSE <<ps[1]>>) \o Others(Drop(ps, 1), section, key)
Unvalued(ps) == [k \in 1..Len(ps) |-> [section |-> ps[k].section, key |-> ps[k].key]]
SectionNames(sections) == [k \in 1..Len(sections) |-> sections[k].name]

\* the section and the key of the key argument "section.key"
ArgSection(l) == Take(l.args.key, IndexOf(l.args.key, 46, 1) - 1)
ArgKey(l) == Drop(l.args.key, IndexOf(l.args.key, 46, 1))

\* what the claim says of set_config_value(section, key, value) that took
\* the config before to the config after
SetEffect(before, after, f, section, key, value) ==
    /\ after.ok
    /\ get_config_value(f, section, key) = [ok |-> TRUE, some |-> TRUE, value |-> value]
    /\ Others(FlatPairs(after.sections), section, key) = Others(FlatPairs(before.sections), section, key)
    /\ (\E k \in 1..Len(FlatPairs(before.sections)) : IsPair(FlatPairs(before.sections)[k], section, key))
          => Unvalued(FlatPairs(after.sections)) = Unvalued(FlatPairs(before.sections))
    /\ (/\ \E k \in 1..Len(before.sections) : before.sections[k].name = section
        /\ FindValue(before, section, key).some = FALSE)
          => /\ SectionNames(after.sections) = SectionNames(before.sections)
             /\ \E k \in 1..Len(after.sections) :
                    /\ after.sections[k].name = section
                    /\ \A j \in 1..(k - 1) : after.sections[j].name # section
                    /\ after.sections[k].keys_values
                         = before.sections[k].keys_values \o <<[key |-> key, value |-> value]>>
    /\ (\A k \in 1..Len(before.sections) : before.sections[k].name # section)
          => after.sections = before.sections
                \o <<[name |-> section, keys_values |-> <<[key |-> key, value |-> value]>>]>>

SetStep == last'.op = "config" /\ last'.args.action = "Set" /\ last'.status = "ok"

\* C14: for every config state and every section s, key k and value v,
\* after set_config_value(s, k, v) get_config_value(s, k) returns v, every
\* other pair keeps its value and its relative order, an existing key is
\* updated in place, a new key is appended at the end of its section, and a
\* new section is appended after all existing sections.
C14_SetThenGet ==
    [][SetStep => SetEffect(read_config(fs), read_config(fs'), fs', ArgSection(last'),
                            ArgKey(last'), last'.args.value)]_vars

\* what holds: the same of the values that are not empty and neither start
\* nor end with white space
C14_PlainValues ==
    [][(SetStep /\ last'.args.value # <<>> /\ Trim(last'.args.value) = last'.args.value)
         => SetEffect(read_config(fs), read_config(fs'), fs', ArgSection(last'),
                      ArgKey(last'), last'.args.value)]_vars

\* the canonical form of a config file: every line ends with a line feed
\* and is a header "[section]" or a tab followed by "key = value", and the
\* first line is a header
IsHeaderLine(line) == Len(line) >= 2 /\ line[1] = 91 /\ Last(line) = 93
IsPairLine(line) == Len(line) >= 1 /\ line[1] = TAB /\ FindEq(Drop(line, 1)) > 1
CanonicalLines(data) == SplitOn(data, LF)
IsCanonical(data) ==
    /\ data # <<>> => Last(data) = LF
    /\ \A k \in 1..(Len(CanonicalLines(data)) - 1) :
          IsHeaderLine(CanonicalLines(data)[k]) \/ IsPairLine(CanonicalLines(data)[k])
    /\ data # <<>> => IsHeaderLine(CanonicalLines(data)[1])

\* a line whose section, key and value are not empty and have no white
\* space or bracket at their ends
IsPlainLine(line) ==
    \/ /\ IsHeaderLine(line)
       /\ Len(line) > 2
       /\ TrimBrackets(line) = SubSeq(line, 2, Len(line) - 1)
       /\ Trim(line) = line
    \/ /\ IsPairLine(line)
       /\ Trim(Drop(line, 1)) = Drop(line, 1)
       /\ ~IsHeaderLine(Drop(line, 1))
IsPlain(data) ==
    \A k \in 1..(Len(CanonicalLines(data)) - 1) : IsPlainLine(CanonicalLines(data)[k])

ConfigData(f) == f[<<DOT_GIT, CONFIG>>].data
RoundTrip(f) ==
    /\ read_config(f).ok
    /\ write_config(f, read_config(f).sections).fs = f

\* C15: for every config file in canonical form, each "[section]" header
\* on its own line followed by its tab-indented "key = value" lines,
\* write_config(read_config()) rewrites the file byte for byte identical to
\* the original, with sections and keys in their original order.
C15_ConfigRoundTrip ==
    (IsFile(fs, <<DOT_GIT, CONFIG>>) /\ IsCanonical(ConfigData(fs))) => RoundTrip(fs)

\* what holds: the round trip of the canonical files whose sections, keys
\* and values are not empty and have no white space or bracket at their ends
C15_PlainRoundTrip ==
    (IsFile(fs, <<DOT_GIT, CONFIG>>) /\ IsCanonical(ConfigData(fs)) /\ IsPlain(ConfigData(fs)))
        => RoundTrip(fs)

\* ------------------------------------------------------------------------
\* Properties of the steps of an insert
\* ------------------------------------------------------------------------
\* the object file at p is complete: it inflates to bytes whose SHA-1 names
\* the path
Complete(f, p) ==
    /\ IsFile(f, p)
    /\ Inflated(f, p).ok
    /\ Hex(Sha1(Inflated(f, p).data)) = p[3] \o p[4]

\* C16: objects are never mutated or deleted: an object file that is
\* present and complete at its path is still present with the same bytes
\* after every step of every operation, the steps of the re-insertion of an
\* object already stored included; no step removes or truncates it.
C16_NeverRemoved ==
    [][\A p \in ObjectFiles(fs) :
          Complete(fs, p) => (p \in DOMAIN fs' /\ fs'[p].data = fs[p].data)]_vars

\* what holds: the object files that are complete when no insert is under
\* way are complete, with the same bytes, whenever no insert is under way
Idle(pr) == \A p \in DOMAIN pr.proc : pr.proc[p].pc \in {"create_dir", "done", "failed"}
C16_SameWhenIdle ==
    (Idle(procs) /\ \E p \in Procs : procs.proc[p].pc = "done") =>
        /\ Complete(fs, ObjectPath(procs.hash))
        /\ fs[ObjectPath(procs.hash)].data = procs.data

\* C17: for two processes inserting the same kind and body into the same
\* repository, under every interleaving of their create-directory,
\* remove-file, create-file and write steps, neither insert returns an
\* error, and once both have finished the file at the path of the object
\* holds the complete compressed encoding of the object.
C17_ConcurrentInserts ==
    /\ \A p \in Procs : procs.proc[p].pc # "failed"
    /\ (\A p \in Procs : procs.proc[p].pc = "done") =>
          /\ Complete(fs, ObjectPath(procs.hash))
          /\ fs[ObjectPath(procs.hash)].data = procs.data

\* both inserts have finished, and one of them has written to a file that
\* the other had removed from the path
C17_Witness ==
    /\ \A p \in Procs : procs.proc[p].pc = "done"
    /\ \E p \in Procs : ~procs.proc[p].linked

\* ------------------------------------------------------------------------
\* Properties of clone
\* ------------------------------------------------------------------------
\* the number a pkt-line starts with: four hex digits
HexDigitValue(c) == IF c >= 97 THEN c - 87 ELSE IF c >= 65 THEN c - 55 ELSE c - 48
PktLen(s, i) ==
    4096 * HexDigitValue(s[i]) + 256 * HexDigitValue(s[i + 1])
    + 16 * HexDigitValue(s[i + 2]) + HexDigitValue(s[i + 3])

\* the hashes of the refs of an advertisement: the forty characters after
\* the length of every pkt-line between the two flush packets
RECURSIVE PktHashes(_, _)
PktHashes(s, i) ==
    IF ~HexDigitsAt(s, i, 4) \/ PktLen(s, i) < 4 THEN <<>>
    ELSE <<SubSeq(s, i + 4, i + 3 + SHA_DISPLAY_LEN)>> \o PktHashes(s, i + PktLen(s, i))
AdvertisedHashes(s) == PktHashes(s, PktLen(s, 1) + Len(S_flush) + 1)

\* "0032want <hash>\n" for every hash
RECURSIVE Wants(_)
Wants(hashes) ==
    IF hashes = <<>> THEN <<>>
    ELSE <<48, 48, 51, 50, 119, 97, 110, 116, SP>> \o hashes[1] \o <<LF>> \o Wants(Drop(hashes, 1))

\* every pkt-line of s from index i on is as long as its first four
\* characters say; "0000" is a flush packet
RECURSIVE WellFramed(_, _)
WellFramed(s, i) ==
    IF i > Len(s) THEN TRUE
    ELSE IF TagAt(s, i, S_flush) THEN WellFramed(s, i + Len(S_flush))
    ELSE /\ HexDigitsAt(s, i, 4)
         /\ PktLen(s, i) >= 4
         /\ i + PktLen(s, i) - 1 <= Len(s)
         /\ WellFramed(s, i + PktLen(s, i))

\* clone has sent a request body: it is kept as the output of the command
BodySent == last.op = "clone" /\ last.out # <<>>

\* C18: for every advertisement that parses, the request body is exactly
\* one "0032want <hex40>\n" pkt-line per advertised ref, the first ref
\* line with the capabilities included, in the order of the advertisement,
\* followed by "00000009done\n"; every four-character hex prefix is the
\* length of its record.
C18_WantPerRef ==
    BodySent =>
        /\ last.out = Wants(AdvertisedHashes(last.args.get.body)) \o S_done
        /\ WellFramed(last.out, 1)

\* what holds: a want line for every ref after the first ref line
C18_WantPerLaterRef ==
    BodySent =>
        /\ last.out = Wants(Drop(AdvertisedHashes(last.args.get.body), 1)) \o S_done
        /\ WellFramed(last.out, 1)

\* ------------------------------------------------------------------------
\* Properties of the head
\* ------------------------------------------------------------------------
\* the HEAD file does not start with "ref: "
Detached(f) == IsFile(f, <<DOT_GIT, HEAD>>) /\ ~StartsWith(f[<<DOT_GIT, HEAD>>].data, S_ref_sp)

C20_FailuresReported ==
    /\ (BodySent /\ last.args.post = CorruptPost) => last.status # "ok"
    /\ (last.op = "config" /\ last.args.action = "List" /\ ~IsFile(fs, <<DOT_GIT, CONFIG>>))
          => last.status # "ok"


\* ------------------------------------------------------------------------
\* Properties of the object parser
\* ------------------------------------------------------------------------
\* the number a string of decimal digits declares
RECURSIVE DecValue(_)
DecValue(d) == IF d = <<>> THEN 0 ELSE DecValue(Take(d, Len(d) - 1)) * 10 + (Last(d) - 48)

\* s is a tag, a space, n digits, a NUL and as many bytes as the digits
\* declare
FramedWith(s, t, n) ==
    /\ Len(s) >= Len(t) + n + 2
    /\ Take(s, Len(t)) = t
    /\ s[Len(t) + 1] = SP
    /\ \A k \in (Len(t) + 2)..(Len(t) + n + 1) : s[k] >= 48 /\ s[k] <= 57
    /\ s[Len(t) + n + 2] = NUL
    /\ DecValue(SubSeq(s, Len(t) + 2, Len(t) + n + 1)) = Len(s) - (Len(t) + n + 2)
IsFramed(s) == \E t \in {S_blob, S_tree, S_commit, S_tag}, n \in 1..Len(s) : FramedWith(s, t, n)
\* the bytes after the first NUL of s
AfterNul(s) == Drop(s, IndexOf(s, NUL, 1))

\* C21: the object parser accepts an inflated byte string if and only if
\* it is one of the tags blob, tree, commit or tag, a single space, one or
\* more decimal digits, a single NUL and exactly as many bytes as the digits
\* declare; for every other input it returns an error and yields no body.
C21_ParserAccepts ==
    (last.op \in {"parse_contents", "parse_object"}) =>
        /\ (last.status = "ok") <=> IsFramed(last.args.body)
        /\ last.status = "ok" => last.out = AfterNul(last.args.body)
        /\ last.status # "ok" => last.out = <<>>

\* a string with a size written with a leading zero is accepted, with a
\* body that holds a NUL
C21_Witness ==
    /\ last.op = "parse_contents" /\ last.status = "ok"
    /\ last.out = <<120, NUL>>

\* ------------------------------------------------------------------------
\* Properties of the ingestion of a pack
\* ------------------------------------------------------------------------
\* the command l is a clone that reached the pack of a remote whose
\* entries are known
Ingested(l) == l.op = "clone" /\ l.out # <<>> /\ l.args.pack.described
\* the entry is of an object, not of a delta
IsBase(e) == e.type \in 1..4
IsDelta(e) == e.type \in {OBJ_TYPE_OFFSET_DELTA, OBJ_TYPE_REF_DELTA}
\* the bytes of the entry are laid out as its type asks: a size of at most
\* nine bytes, then an offset that is not beyond the entry for OFS_DELTA,
\* the 20 bytes of a base for REF_DELTA, and nothing for an object
Framed(e) ==
    /\ e.pad < 8
    /\ e.type = OBJ_TYPE_OFFSET_DELTA => Len(e.mid) = 1 /\ e.mid[1] <= PACK_START
    /\ e.type = OBJ_TYPE_REF_DELTA => Len(e.mid) = SHA_LEN
    /\ ~IsDelta(e) => e.mid = <<>>
\* the stream of the entry inflates to as many bytes as the entry declares
Sound(e) == Framed(e) /\ (IsBase(e) \/ IsDelta(e)) /\ e.good /\ e.size = Len(e.data)
\* inflating the entry does not yield as many bytes as it declares: the
\* stream holds another number of bytes or, when it breaks off, fewer
Mismatched(e) ==
    /\ Framed(e)
    /\ IF e.good THEN e.size # Len(e.data) ELSE e.size > Len(e.data)
\* the object of an entry as the store holds it: its digest in hex and its
\* bytes, "<kind> <length>\0" and the body
KindTag(type) ==
    CASE type = 1 -> S_commit
      [] type = 2 -> S_tree
      [] type = 3 -> S_blob
      [] type = 4 -> S_tag
FramedObject(e) == KindTag(e.type) \o <<SP>> \o Dec(Len(e.data)) \o <<NUL>> \o e.data
ObjectOf(e) == <<Hex(Sha1(FramedObject(e))), FramedObject(e)>>
\* the objects of the entries es[1..k] that are no deltas
ObjectsOf(es, k) == {ObjectOf(es[j]) : j \in {i \in 1..k : IsBase(es[i])}}
\* the objects of the store f: their digests in hex and their bytes
StoredObjects(f) == {<<p[3] \o p[4], Inflated(f, p).data>> : p \in ObjectFiles(f)}
\* the store did not change but for the objects in new
InsertedExactly(f, g, new) ==
    /\ StoredObjects(g) = StoredObjects(f) \cup new
    /\ \A o \in new : o \notin StoredObjects(f)

\* C22: for every pack entry, of an object or of a delta, ingestion fails
\* with an error unless the number of bytes obtained by inflating the entry
\* equals the size decoded from the type and size of the entry; on a
\* mismatch no object of that entry is inserted and no later entry is
\* processed: the objects inserted are those of the entries before it.
C22_SizeMismatch ==
    [][\A k \in 1..Len(last'.args.pack.entries) :
          (/\ Ingested(last')
           /\ Mismatched(last'.args.pack.entries[k])
           /\ \A j \in 1..(k - 1) : Sound(last'.args.pack.entries[j]))
          => (/\ last'.status = "err"
              /\ InsertedExactly(fs, fs', ObjectsOf(last'.args.pack.entries, k - 1)))]_vars

\* the objects of the entries of es that are no deltas and whose stream
\* inflates
ObjectsIn(es) == {ObjectOf(es[j]) : j \in {i \in 1..Len(es) : IsBase(es[i]) /\ es[i].good}}

\* C23: after a successful ingestion of a pack, the set of objects it
\* inserted is exactly: for every entry with type code 1, 2, 3 or 4 and
\* inflated body B, the object (commit, tree, blob or tag, B), stored under
\* SHA-1("<kind> <len(B)>\0" B); entries with type code 6 or 7 insert
\* nothing, and the entries after them are decoded from their true start.
C23_IngestInserts ==
    [][(Ingested(last') /\ last'.status = "ok")
          => InsertedExactly(fs, fs', ObjectsIn(last'.args.pack.entries))]_vars

\* every entry the pack holds inflates to the size it declares
AllSound(es) == \A k \in 1..Len(es) : Sound(es[k])

\* C24: ingestion of a pack whose header starts with "PACK" and declares n
\* entries processes exactly n entries, one for each declared entry, and
\* never decodes, inflates or inserts any part of the trailing checksum:
\* of a pack that holds at least n entries, all of them sound, it inserts
\* the objects of the first n and succeeds.
C24_DeclaredEntries ==
    [][(/\ Ingested(last')
        /\ AllSound(last'.args.pack.entries)
        /\ last'.args.pack.n <= Len(last'.args.pack.entries))
       => (/\ last'.status = "ok"
           /\ InsertedExactly(fs, fs', ObjectsOf(last'.args.pack.entries, last'.args.pack.n)))]_vars

\* ------------------------------------------------------------------------
\* Properties of the type and size of an entry
\* ------------------------------------------------------------------------
\* the sum over i >= 1 of (b[i] & 127) * 2^(4 + 7 * (i - 1)), b[0] being the
\* first byte of the sequence
RECURSIVE GroupSum(_, _)
GroupSum(b, i) ==
    IF i >= Len(b) THEN 0
    ELSE (IF b[i + 1] % 128 = 0 THEN 0 ELSE (b[i + 1] % 128) * 2^(4 + 7 * (i - 1))) + GroupSum(b, i + 1)
\* exactly the first k - 1 of the k bytes have the most significant bit set
IsPrefix(b) ==
    /\ Len(b) >= 1
    /\ \A i \in 1..Len(b) : (b[i] >= 128) <=> (i < Len(b))

\* C25: for every entry prefix of k >= 1 bytes b0..b(k-1) in which exactly
\* the first k-1 bytes have the most significant bit set, the decoder
\* yields type = bits 4..6 of b0 and size = (b0 & 15) + the sum over i >= 1
\* of (bi & 127) * 2^(4 + 7*(i-1)), and advances the cursor by k bytes.
C25_PrefixDecoded ==
    (last.op = "entry_header" /\ IsPrefix(last.args.body)) =>
        /\ last.status = "ok"
        /\ last.out = <<(last.args.body[1] \div 16) % 8,
                        (last.args.body[1] % 16) + GroupSum(last.args.body, 1),
                        last.args.abbrev + Len(last.args.body)>>

\* ------------------------------------------------------------------------
\* Referential closure of write_tree
\* ------------------------------------------------------------------------
\* the kind of the object stored under the hex digest d, or nothing
StoredKind(f, d) ==
    IF StoredPath(d) \in ObjectFiles(f) THEN parse_type(Inflated(f, StoredPath(d)).data).type ELSE <<>>

\* the tree stored under d stands for the directory dir: it is stored, it
\* names exactly the kept entries of dir, a kept directory by a tree that
\* stands for it and any other kept entry by a stored blob
RECURSIVE StandsFor(_, _, _)
StandsFor(f, d, dir) ==
    /\ StoredKind(f, d) = S_tree
    /\ LET es == TreeEntries(f, d)
       IN  /\ {es[i].name : i \in 1..Len(es)} = {Last(p) : p \in Kept(f, dir)}
           /\ \A i \in 1..Len(es) :
                 IF f[dir \o <<es[i].name>>].t = "dir"
                 THEN StandsFor(f, Hex(es[i].hash), dir \o <<es[i].name>>)
                 ELSE StoredKind(f, Hex(es[i].hash)) = S_blob

\* the digests of the trees reached from the tree stored under d, d
\* included
RECURSIVE TreesFrom(_, _)
TreesFrom(f, d) ==
    {d} \cup (IF StoredKind(f, d) # S_tree THEN {}
              ELSE LET es == TreeEntries(f, d)
                   IN  UNION {TreesFrom(f, Hex(es[i].hash)) : i \in {k \in 1..Len(es) : es[k].tree}})

\* C26: after write_tree succeeds, the store contains the returned tree
\* object, a blob object for every kept non-directory entry and a tree
\* object for every kept subdirectory at every depth, so every digest that
\* appears in any tree written by the call locates to a stored object;
\* entries named .git, .vscode or target are absent from every tree at
\* every depth.
C26_TreeClosure ==
    (last.op = "write_tree" /\ last.status = "ok")
    => /\ StandsFor(fs, Take(last.out, SHA_DISPLAY_LEN), <<>>)
       /\ \A d \in TreesFrom(fs, Take(last.out, SHA_DISPLAY_LEN)) :
            /\ StoredKind(fs, d) = S_tree
            /\ \A i \in 1..Len(TreeEntries(fs, d)) :
                  /\ StoredKind(fs, Hex(TreeEntries(fs, d)[i].hash)) \in {S_tree, S_blob}
                  /\ TreeEntries(fs, d)[i].name \notin {DOT_GIT, S_vscode, S_target}

\* the tree of a directory was written that holds, two levels down, a
\* file and, one level down, an ignored directory with a file
C26_Witness ==
    /\ last.op = "write_tree" /\ last.status = "ok"
    /\ <<N_e, N_d, N_a>> \in DOMAIN fs
    /\ <<N_e, S_vscode, N_a>> \in DOMAIN fs
    /\ Cardinality(TreesFrom(fs, Take(last.out, SHA_DISPLAY_LEN))) = 3

\* ------------------------------------------------------------------------
\* The ref file after a commit
\* ------------------------------------------------------------------------
\* C27: after every successful commit, the branch ref file under
\* refs/heads/ contains exactly the 40 lowercase hexadecimal characters of
\* the digest of the new commit followed by a single newline character.
C27_RefFileNewline ==
    [][(last'.op = "commit" /\ last'.status = "ok")
         => \E p \in ReadDir(fs', <<DOT_GIT, REFS, HEADS>>) :
              \E d \in CommitHashes(fs') \ CommitHashes(fs) :
                 fs'[p].data = d \o <<LF>>]_vars

\* ------------------------------------------------------------------------
\* The order of the fetch protocol
\* ------------------------------------------------------------------------
\* C28: the POST to git-upload-pack is sent only after the GET of info/refs
\* returned status 200 or 304 with the content-type
\* application/x-git-upload-pack-advertisement and a body that parses as
\* an advertisement; and no object is inserted into the store unless the
\* answer to the POST has a success status and its body begins with
\* "0008NAK\n".
C28_FetchOrder ==
    [][last'.op = "clone"
         => /\ last'.out # <<>>
                 => /\ last'.args.get.status \in {200, 304}
                    /\ last'.args.get.content_type = "application/x-git-upload-pack-advertisement"
                    /\ advertisement_response(last'.args.get.body).ok
            /\ ObjectFiles(fs') # ObjectFiles(fs)
                 => /\ last'.out # <<>>
                    /\ last'.args.post.status \in 200..299
                    /\ StartsWith(last'.args.post.body, <<48, 48, 48, 56, 78, 65, 75, 10>>)]_vars

\* a clone stored an object after a GET with the status 304 and a POST
\* with the status 204
C28_Witness ==
    /\ last.op = "clone" /\ last.status = "ok"
    /\ last.args.get.status = 304 /\ last.args.post.status = 204
    /\ ObjectFiles(fs) # {}

\* ------------------------------------------------------------------------
\* Termination of the ingestion of a pack
\* ------------------------------------------------------------------------
\* the loop over the pack runs
Running(pr) == pr.kind = "ingest" /\ pr.proc.status = "run"

\* C29: pack ingestion terminates on every finite pack byte string: every
\* pass of the entry loop, the passes that skip a delta entry included,
\* advances the cursor by at least one byte, and the loop exits once no
\* more than 20 bytes remain after the cursor.  A pass is made whenever
\* the loop runs; after a pass the loop has ended or the cursor is at
\* least one byte further and not beyond the end, so that a pack of n
\* bytes ends the loop within n passes.
C29_IngestTerminates ==
    [][Running(procs) =>
         /\ procs'.proc.passes = procs.proc.passes + 1
         /\ procs'.proc.passes <= Len(procs.data) + 1
         /\ Running(procs') =>
               /\ procs'.proc.index >= procs.proc.index + 1
               /\ procs'.proc.index <= Len(procs.data)
         /\ (procs.proc.index <= Len(procs.data)
               /\ Len(procs.data) - procs.proc.index <= 20) => procs'.proc.status = "ok"]_vars

\* the loop has skipped an OFS_DELTA entry after a blob and runs on, its
\* cursor behind both
C29_Witness ==
    /\ Running(procs)
    /\ procs.proc.passes = 2
    /\ procs.data = MkPack(3, EncodeEntrySeq(<<E_blob_x, E_ofs_delta, E_commit_long>>))
    /\ procs.proc.index = PACK_START + Len(EncodeEntry(E_blob_x)) + Len(EncodeEntry(E_ofs_delta))

\* ------------------------------------------------------------------------
\* Memory safety of the ingestion of a pack
\* ------------------------------------------------------------------------
\* C30: for every byte string that follows "0008NAK\n", well-formed or
\* not, one shorter than 12 bytes included, every read of the pack buffer
\* uses an index within the buffer, the back-reference of an OFS_DELTA
\* never underflows, and the type code of an inserted entry is one of
\* 1..4: malformed input is reported as an error, never as a panic.
C30_NoPanic ==
    (last.op = "clone" /\ last.out # <<>> /\ StartsWith(last.args.post.body, S_NAK))
        => last.status # "panic"

====
